---- MODULE Spec2Model ----
(***************************************************************************)
(* agentstash: the backup orchestration (cli/backup.ts), the passphrase    *)
(* resolution of the five commands and the snapshot time matcher.          *)
(*                                                                         *)
(* JavaScript values: a missing option, `undefined` and `null` are the     *)
(* single value Absent; the empty string is a value of its own, so that    *)
(* truthiness (`if (x)`) and nullishness (`x ?? y`) stay different.        *)
(***************************************************************************)
EXTENDS Integers, Sequences, FiniteSets, TLC

Absent == "<absent>"

\* `if (x)` on a string-or-undefined value
Truthy(x) == x # Absent /\ x # ""

\* `x ?? y` tests only for null / undefined
Nullish(x) == x = Absent

(***************************************************************************)
(* Bounds of the model.                                                    *)
(***************************************************************************)
\* longest config.agents list loaded by requireConfig
MaxAgents == 2

(***************************************************************************)
(* Agent definitions registered at load time (core/agents/definitions).    *)
(***************************************************************************)
ClaudeCodeDef ==
  [ id |-> "claude-code",
    displayName |-> "Claude Code",
    dataDirs |-> << [path |-> "~/.claude", critical |-> TRUE],
                    [path |-> "~/.claude.json", critical |-> TRUE] >>,
    categories |->
      [ config    |-> [backupIncludes |-> <<"settings.json", "settings.local.json", "mcp-needs-auth-cache.json">>,
                       restoreIncludes |-> <<"**/settings.json", "**/settings.local.json", "**/mcp-needs-auth-cache.json">>],
        secrets   |-> [backupIncludes |-> <<".credentials.json">>,
                       restoreIncludes |-> <<"**/.credentials.json">>],
        sessions  |-> [backupIncludes |-> <<"projects/**/*.jsonl", "projects/**/memory/**">>,
                       restoreIncludes |-> <<"**/projects/**/*.jsonl", "**/projects/**/memory/**">>],
        skills    |-> [backupIncludes |-> <<"skills/**">>,
                       restoreIncludes |-> <<"**/skills/**">>],
        settings  |-> [backupIncludes |-> <<"settings.json", "settings.local.json", "statusline-command.sh">>,
                       restoreIncludes |-> <<"**/settings.json", "**/settings.local.json", "**/statusline-command.sh">>],
        history   |-> [backupIncludes |-> <<"history.jsonl">>,
                       restoreIncludes |-> <<"**/history.jsonl">>],
        workspace |-> [backupIncludes |-> <<"plans/**", "todos/**">>,
                       restoreIncludes |-> <<"**/plans/**", "**/todos/**">>] ],
    excludes |-> << "debug/**", "file-history/**", "cache/**", "telemetry/**",
                    "shell-snapshots/**", "paste-cache/**", "session-env/**",
                    "tasks/**", "downloads/**", "backups/**",
                    "plugins/marketplaces/*/.git/**" >>,
    hasIsRunning |-> TRUE ]

CodexDef ==
  [ id |-> "codex",
    displayName |-> "Codex CLI",
    dataDirs |-> << [path |-> "~/.codex", critical |-> TRUE] >>,
    categories |->
      [ config   |-> [backupIncludes |-> <<"config.toml">>,
                      restoreIncludes |-> <<"**/config.toml">>],
        settings |-> [backupIncludes |-> <<"config.toml">>,
                      restoreIncludes |-> <<"**/config.toml">>] ],
    excludes |-> << "*.log" >>,
    hasIsRunning |-> FALSE ]

\* the registry map after the definition modules have run registerAgent
agents == [ id \in {"claude-code", "codex"} |->
              IF id = "claude-code" THEN ClaudeCodeDef ELSE CodexDef ]

\* agents.get(id) of an id never registered is undefined
NoAgent == [undefined |-> TRUE]

getAgent(id) == IF id \in DOMAIN agents THEN agents[id] ELSE NoAgent

\* Object.keys(agentDef.categories)
CategoryKeys(agentDef) == DOMAIN agentDef.categories

(***************************************************************************)
(* Paths.  homedir() is /home/user.                                        *)
(***************************************************************************)
CustomDataDir == "~/work/agent-data"

expandHome(p) ==
  CASE p = "~/.claude"      -> "/home/user/.claude"
    [] p = "~/.claude.json" -> "/home/user/.claude.json"
    [] p = "~/.codex"       -> "/home/user/.codex"
    [] p = CustomDataDir    -> "/home/user/work/agent-data"
    [] p = "~"              -> "/home/user"
    [] OTHER                -> p

(***************************************************************************)
(* Inputs: command options, environment, keychain, configuration file.     *)
(***************************************************************************)
PassphraseOptions == {Absent, "", "flag-pass"}
EnvValues         == {Absent, "", "env-pass"}
KeychainValues    == {Absent, "", "keychain-pass"}
\* the environment of a backupCommand run (the empty value is exercised by
\* SpecPass, on the same resolvePassphrase)
BackupEnvValues   == {Absent, "env-pass"}

AgentOptions  == {Absent, "claude-code", "codex"}
OnlyOptions   == {Absent, "sessions", "config"}
\* opts.forget: undefined unless --no-forget makes it false (a true is read
\* by `opts.forget !== false` exactly as undefined is)
ForgetOptions == {Absent, "false"}

BackupOptions ==
  [ passphrase : PassphraseOptions, agent : AgentOptions, only : OnlyOptions,
    dryRun : BOOLEAN, forget : ForgetOptions ]

ConfiguredIds == {"claude-code", "codex", "ghost"}

\* entries of config.agents (a dataDir of an unregistered id is never read)
AgentConfig ==
  { a \in [ id : ConfiguredIds, enabled : BOOLEAN, dataDir : {Absent, CustomDataDir},
             excludes : {Absent} ] : a.id = "ghost" => a.dataDir = Absent }

\* config.agents: up to MaxAgents entries with distinct ids, as setup writes
\* them, and every hand-edited pair of entries that repeats an id
AgentConfigLists ==
  { l \in UNION { [1..n -> AgentConfig] : n \in 0..MaxAgents } :
      \A i, j \in 1..Len(l) : i < j => l[i].id # l[j].id }
  \cup { l \in [1..2 -> AgentConfig] : l[1].id = l[2].id }

Retention == [keepLast |-> 7, keepDaily |-> 30, keepWeekly |-> 12, keepMonthly |-> 6]

AgentstashConfig ==
  [ agents : AgentConfigLists, exclude : {<< >>}, retention : {Retention} ]

\* configurations that carry exclude patterns: one enabled agent whose
\* excludes are an empty or a two-pattern list, under an empty or a
\* two-pattern global list ("*.log" is also a default of codex)
ExcludingConfigs ==
  [ agents : { << a >> : a \in [ id : {"claude-code", "codex"}, enabled : {TRUE},
                                  dataDir : {Absent},
                                  excludes : {<< >>, << "*.log", "tmp/**" >>} ] },
    exclude : {<< >>, << "*.log", ".DS_Store" >>},
    retention : {Retention} ]

(***************************************************************************)
(* State.                                                                  *)
(***************************************************************************)
VARIABLES
  pc,             \* position of backupCommand
  opts,           \* the BackupOptions passed to backupCommand
  env,            \* process.env.AGENTSTASH_PASSPHRASE
  config,         \* result of loadConfig(), Unread before requireConfig
  fromKeychain,   \* local of resolvePassphrase, Absent until looked up
  passphrase,     \* local of backupCommand
  agentsToBackup, \* local of backupCommand
  agentIdx,       \* position of the for-loop over agentsToBackup
  dirIdx,         \* position of the for-loop over dataDirs in backupAgent
  calls,          \* engine invocations issued so far, with their outcome
  pathChecks,     \* results of pathExists, by loop position
  logged,         \* log.warn / log.error / spinner.fail lines that matter
  exitCode        \* Running; 0 after a normal return; 1 after process.exit(1)

backupVars == << pc, opts, env, config, fromKeychain, passphrase, agentsToBackup,
                 agentIdx, dirIdx, calls, pathChecks, logged, exitCode >>

\* the credential sources shared by the five commands, and what each
\* command made of them
VARIABLES
  credentials,    \* [explicit, env, keychain]
  resolved        \* command -> Pending, the passphrase it uses, or Absent

passVars == << credentials, resolved >>

\* findSnapshotByTime(snapshots, timeStr)
VARIABLES
  fpc,            \* position inside findSnapshotByTime
  snapshots,      \* argument: the list returned by listSnapshots
  timeStr,        \* argument: the --at expression
  targetTime,     \* local
  snapIdx,        \* position of the for-loop over snapshots
  best,           \* local
  bestDiff,       \* local
  found           \* the value returned

findVars == << fpc, snapshots, timeStr, targetTime, snapIdx, best, bestDiff, found >>

\* restoreCommand(opts)
VARIABLES
  rpc,              \* position of restoreCommand
  ropts,            \* the RestoreOptions passed to restoreCommand
  atForm,           \* how the --at string was written
  rnow,             \* Date.now(), in milliseconds
  repo,             \* the snapshots of the repository, oldest first
  rconfig,          \* result of loadConfig()
  rpassphrase,      \* local of restoreCommand
  rsnapshots,       \* local: the list returned by listSnapshots
  rtargetTime,      \* local of findSnapshotByTime, in milliseconds
  selectedSnapshot, \* local of restoreCommand
  targetDir,        \* local of restoreCommand
  rcalls,           \* engine invocations issued so far, with their outcome
  rlogged,          \* log.error lines
  rexit,            \* exit code
  rprompt           \* what pathExists(targetDir) and the overwrite prompt answered

restoreVars ==
  << rpc, ropts, atForm, rnow, repo, rconfig, rpassphrase, rsnapshots, rtargetTime,
     selectedSnapshot, targetDir, rcalls, rlogged, rexit, rprompt >>

\* the state of the commands that are not running
RestoreIdle ==
  /\ rpc = "idle"
  /\ ropts = [passphrase |-> "<absent>", agent |-> "<absent>", only |-> "<absent>",
              at |-> << "<absent>" >>, target |-> "<absent>", dryRun |-> FALSE]
  /\ atForm = [kind |-> "none"]
  /\ rnow = [hi |-> 0, lo |-> 0]
  /\ repo = << >>
  /\ rconfig = [unread |-> TRUE]
  /\ rpassphrase = "<absent>"
  /\ rsnapshots = << >>
  /\ rtargetTime = [hi |-> 0, lo |-> 0]
  /\ selectedSnapshot = [none |-> TRUE]
  /\ targetDir = "<absent>"
  /\ rcalls = << >>
  /\ rlogged = << >>
  /\ rexit = -1
  /\ rprompt = [targetExists |-> "unchecked", answer |-> "not-asked"]

\* runHealthChecks(passphrase)
VARIABLES
  hpc,              \* position of runHealthChecks
  hpassphrase,      \* argument
  resticInstalled,  \* what isResticInstalled() answers
  hfiles,           \* the paths that exist on this machine
  hconfig,          \* what loadConfig() answers
  checks,           \* local: the list being built, returned at the end
  hAgentIdx,        \* position of the for-loop over config.agents
  hcalls,           \* checkRepo invocations, with their answer
  hprobes           \* isRunning invocations, with what execSync did

healthVars ==
  << hpc, hpassphrase, resticInstalled, hfiles, hconfig, checks, hAgentIdx, hcalls,
     hprobes >>

HealthIdle ==
  /\ hpc = "idle"
  /\ hpassphrase = "<absent>"
  /\ resticInstalled = FALSE
  /\ hfiles = {}
  /\ hconfig = [unread |-> TRUE]
  /\ checks = << >>
  /\ hAgentIdx = 0
  /\ hcalls = << >>
  /\ hprobes = << >>

\* forgetCommand(opts)
VARIABLES
  gpc,              \* position of forgetCommand
  gopts,            \* the ForgetOptions passed to forgetCommand
  gconfig,          \* result of loadConfig()
  gpassphrase,      \* local of forgetCommand
  grepo,            \* the snapshots of the repository
  grepoAtStart,     \* the repository as forgetCommand found it
  before,           \* local: first listSnapshots result
  after,            \* local: second listSnapshots result
  gcalls,           \* engine invocations issued so far
  greport,          \* the Before / After / Removed lines printed
  gexit             \* exit code

forgetVars ==
  << gpc, gopts, gconfig, gpassphrase, grepo, grepoAtStart, before, after, gcalls,
     greport, gexit >>

ForgetIdle ==
  /\ gpc = "idle"
  /\ gopts = [passphrase |-> "<absent>", agent |-> "<absent>"]
  /\ gconfig = [unread |-> TRUE]
  /\ gpassphrase = "<absent>"
  /\ grepo = << >>
  /\ grepoAtStart = << >>
  /\ before = << >>
  /\ after = << >>
  /\ gcalls = << >>
  /\ greport = [printed |-> FALSE]
  /\ gexit = -1

\* getCategoryIncludes(agentId, only), in both directions
VARIABLES
  cpc,              \* which of the two functions have been called
  cargs,            \* the arguments [agentId, only]
  cresult           \* direction -> what the call did

categoryVars == << cpc, cargs, cresult >>

CategoryIdle ==
  /\ cpc = "idle"
  /\ cargs = [agentId |-> "<absent>", only |-> "<absent>"]
  /\ cresult = [backup |-> [kind |-> "pending"], restore |-> [kind |-> "pending"]]

\* the agent registry (core/agents/registry.ts)
VARIABLES
  agentsMap,        \* the Map: its entries [key, value] in insertion order
  registered,       \* the definitions handed to registerAgent so far, in order
  installedResult   \* what the last getInstalledAgents() call did

registryVars == << agentsMap, registered, installedResult >>

RegistryIdle ==
  /\ agentsMap = << >>
  /\ registered = << >>
  /\ installedResult = [kind |-> "not-called"]

\* statusCommand(opts)
VARIABLES
  spc,              \* position of statusCommand
  sconfig,          \* result of loadConfig()
  spassphrase,      \* local of statusCommand
  scalls,           \* engine invocations issued so far, with their outcome
  sexit             \* exit code

statusVars == << spc, sconfig, spassphrase, scalls, sexit >>

StatusIdle ==
  /\ spc = "idle"
  /\ sconfig = [unread |-> TRUE]
  /\ spassphrase = "<absent>"
  /\ scalls = << >>
  /\ sexit = -1

laterVars ==
  << restoreVars, healthVars, forgetVars, categoryVars, registryVars, statusVars >>

LaterIdle ==
  RestoreIdle /\ HealthIdle /\ ForgetIdle /\ CategoryIdle /\ RegistryIdle /\ StatusIdle

\* what a step of one command leaves alone
notRestore == << healthVars, forgetVars, categoryVars, registryVars, statusVars >>
notHealth == << restoreVars, forgetVars, categoryVars, registryVars, statusVars >>
notForget == << restoreVars, healthVars, categoryVars, registryVars, statusVars >>
notCategory == << restoreVars, healthVars, forgetVars, registryVars, statusVars >>
notRegistry == << restoreVars, healthVars, forgetVars, categoryVars, statusVars >>
notStatus == << restoreVars, healthVars, forgetVars, categoryVars, registryVars >>

\* exitCode of a command that has not terminated
Running == -1

\* loadConfig() returned null / has not been called yet
NoConfig == [missing |-> TRUE]
Unread == [unread |-> TRUE]

(***************************************************************************)
(* Pure helpers of cli/backup.ts.                                          *)
(***************************************************************************)
\* variant: the environment is consulted before the option
resolvePassphrase_EnvFirst(explicit, envValue, keychainValue) ==
  IF Truthy(envValue) THEN envValue
  ELSE IF Truthy(explicit) THEN explicit
  ELSE IF Truthy(keychainValue) THEN keychainValue
  ELSE Absent

\* variant: the keychain value is tested against null only, so that an
\* empty keychain entry is returned as the passphrase
resolvePassphrase_NullCheck(explicit, envValue, keychainValue) ==
  IF Truthy(explicit) THEN explicit
  ELSE IF Truthy(envValue) THEN envValue
  ELSE IF ~Nullish(keychainValue) THEN keychainValue
  ELSE Absent

\* resolvePassphrase of backup.ts: the value returned, Absent meaning that
\* the function reached process.exit(1)
resolvePassphrase(explicit, envValue, keychainValue) ==
  IF Truthy(explicit) THEN explicit
  ELSE IF Truthy(envValue) THEN envValue
  ELSE IF Truthy(keychainValue) THEN keychainValue
  ELSE Absent

\* agentDef.categories[only]: categories is an object literal, so a name
\* that is no key of its own is looked up on Object.prototype
ObjectPrototypeKeys ==
  {"constructor", "toString", "valueOf", "hasOwnProperty", "__proto__"}
NoRule == [undefined |-> TRUE]
InheritedProperty == [inherited |-> TRUE]
GetCategoryRule(agentDef, only) ==
  IF only \in DOMAIN agentDef.categories THEN agentDef.categories[only]
  ELSE IF only \in ObjectPrototypeKeys THEN InheritedProperty
  ELSE NoRule

\* getCategoryIncludes (backup direction)
getCategoryIncludes(agentId, only) ==
  IF ~Truthy(only) THEN [kind |-> "nofilter"]
  ELSE LET agentDef == getAgent(agentId) IN
    IF agentDef = NoAgent THEN [kind |-> "exit", error |-> "unknown-agent", valid |-> {}]
    ELSE LET categoryRule == GetCategoryRule(agentDef, only) IN
      IF categoryRule = NoRule
        THEN [kind |-> "exit", error |-> "unknown-category", valid |-> CategoryKeys(agentDef)]
      ELSE IF categoryRule = InheritedProperty
        THEN [kind |-> "nofilter"]   \* categoryRule.backupIncludes is undefined
      ELSE [kind |-> "includes", patterns |-> categoryRule.backupIncludes]

\* getCategoryIncludes (restore direction)
restoreGetCategoryIncludes(agentId, only) ==
  IF ~Truthy(only) THEN [kind |-> "nofilter"]
  ELSE LET agentDef == getAgent(agentId) IN
    IF agentDef = NoAgent THEN [kind |-> "exit", error |-> "unknown-agent", valid |-> {}]
    ELSE LET categoryRule == GetCategoryRule(agentDef, only) IN
      IF categoryRule = NoRule
        THEN [kind |-> "exit", error |-> "unknown-category", valid |-> CategoryKeys(agentDef)]
      ELSE IF categoryRule = InheritedProperty
        THEN [kind |-> "nofilter"]   \* categoryRule.restoreIncludes is undefined
      ELSE [kind |-> "includes", patterns |-> categoryRule.restoreIncludes]

\* variant: the override is put in front of the definition's directories
EffectiveDataDirs_Prepended(agentConfig, agentDef) ==
  IF Truthy(agentConfig.dataDir)
    THEN << [path |-> agentConfig.dataDir, critical |-> TRUE] >> \o agentDef.dataDirs
    ELSE agentDef.dataDirs

\* const dataDirs = agentConfig.dataDir ? [custom entry] : agentDef.dataDirs
EffectiveDataDirs(agentConfig, agentDef) ==
  IF Truthy(agentConfig.dataDir)
    THEN << [path |-> agentConfig.dataDir, critical |-> TRUE] >>
    ELSE agentDef.dataDirs

\* variant: the global patterns are spread first
BuildExcludes_GlobalFirst(agentDef, agentConfig, cfg) ==
  cfg.exclude
    \o agentDef.excludes
    \o (IF Nullish(agentConfig.excludes) THEN << >> ELSE agentConfig.excludes)

\* const excludes = [...agentDef.excludes, ...(agentConfig.excludes ?? []), ...config.exclude]
BuildExcludes(agentDef, agentConfig, cfg) ==
  agentDef.excludes
    \o (IF Nullish(agentConfig.excludes) THEN << >> ELSE agentConfig.excludes)
    \o cfg.exclude

\* variant: the category is never pushed
BuildTags_NoCategory(agentConfig, o) == << "agentstash", agentConfig.id >>

\* const tags = ["agentstash", agentConfig.id]; if (opts.only) tags.push(opts.only)
BuildTags(agentConfig, o) ==
  IF Truthy(o.only) THEN << "agentstash", agentConfig.id, o.only >>
                    ELSE << "agentstash", agentConfig.id >>

\* variant: only dryRun suppresses retention
ShouldApplyRetention_IgnoresNoForget(o) == ~o.dryRun

\* if (!opts.dryRun && opts.forget !== false)
ShouldApplyRetention(o) == ~o.dryRun /\ o.forget # "false"

\* variant: the last entry with the id instead of the first
FindAgentIndex_Last(list, id) ==
  IF \E i \in 1..Len(list) : list[i].id = id
    THEN CHOOSE i \in 1..Len(list) :
           list[i].id = id /\ \A k \in (i + 1)..Len(list) : list[k].id # id
    ELSE 0

\* config.agents.find((a) => a.id === id): index of the first match, 0 if none
FindAgentIndex(list, id) ==
  IF \E i \in 1..Len(list) : list[i].id = id
    THEN CHOOSE i \in 1..Len(list) :
           list[i].id = id /\ \A k \in 1..(i - 1) : list[k].id # id
    ELSE 0

\* config.agents.filter((a) => a.enabled)
RECURSIVE FilterEnabled(_)
FilterEnabled(list) ==
  IF list = << >> THEN << >>
  ELSE IF Head(list).enabled THEN << Head(list) >> \o FilterEnabled(Tail(list))
       ELSE FilterEnabled(Tail(list))

(***************************************************************************)
(* backupCommand.                                                          *)
(***************************************************************************)
BackupInit ==
  /\ pc = "start"
  /\ opts \in BackupOptions
  /\ env \in BackupEnvValues
  /\ config = Unread
  /\ fromKeychain = Absent
  /\ passphrase = Absent
  /\ agentsToBackup = << >>
  /\ agentIdx = 0
  /\ dirIdx = 0
  /\ calls = << >>
  /\ pathChecks = {}
  /\ logged = << >>
  /\ exitCode = Running

\* control after the for-loop over agentsToBackup moves past agent i
AfterAgent(i) ==
  IF i < Len(agentsToBackup)
    THEN [pc |-> "agent", agentIdx |-> i + 1, dirIdx |-> 0]
    ELSE [pc |-> "retention", agentIdx |-> i + 1, dirIdx |-> 0]

\* control after the for-loop over dataDirs moves past directory j of agent i
AfterDir(i, j) ==
  LET cfgI == agentsToBackup[i]
      dirs == EffectiveDataDirs(cfgI, getAgent(cfgI.id))
  IN IF j < Len(dirs) THEN [pc |-> "dir", agentIdx |-> i, dirIdx |-> j + 1]
                      ELSE AfterAgent(i)

Goto(c) ==
  /\ pc' = c.pc
  /\ agentIdx' = c.agentIdx
  /\ dirIdx' = c.dirIdx

\* const config = await requireConfig(): throws when no config file exists
RequireConfig ==
  /\ pc = "start"
  /\ \/ \E c \in AgentstashConfig \cup {NoConfig} :
          /\ config' = c
          /\ pc' = IF c = NoConfig THEN "threw" ELSE "resolve"
     \/ \E c \in ExcludingConfigs :
          /\ config' = c
          /\ pc' = "resolve"
  /\ UNCHANGED << passVars, findVars, laterVars >>
  /\ UNCHANGED << opts, env, fromKeychain, passphrase, agentsToBackup, agentIdx,
                  dirIdx, calls, pathChecks, logged, exitCode >>

\* const passphrase = await resolvePassphrase(opts)
ResolvePassphrase ==
  /\ pc = "resolve"
  /\ LET consult == ~Truthy(opts.passphrase) /\ ~Truthy(env) IN
     \E k \in (IF consult THEN KeychainValues ELSE {Absent}) :
       LET r == resolvePassphrase(opts.passphrase, env, k) IN
       /\ fromKeychain' = k
       /\ passphrase' = r
       /\ IF r = Absent
            THEN /\ pc' = "exited"
                 /\ exitCode' = 1
                 /\ logged' = Append(logged, [kind |-> "error", what |-> "no-passphrase"])
            ELSE /\ pc' = "select"
                 /\ UNCHANGED << exitCode, logged >>
  /\ UNCHANGED << passVars, findVars, laterVars >>
  /\ UNCHANGED << opts, env, config, agentsToBackup, agentIdx, dirIdx, calls, pathChecks >>

\* ensureRestic, then the choice of agentsToBackup
SelectAgents ==
  /\ pc = "select"
  /\ LET at == FindAgentIndex(config.agents, opts.agent)
         chosen == IF Truthy(opts.agent)
                     THEN (IF at = 0 THEN << >> ELSE << config.agents[at] >>)
                     ELSE FilterEnabled(config.agents)
     IN IF Truthy(opts.agent) /\ at = 0
          THEN /\ pc' = "exited"
               /\ exitCode' = 1
               /\ logged' = Append(logged, [kind |-> "error", what |-> "agent-not-configured"])
               /\ UNCHANGED << agentsToBackup, agentIdx, dirIdx >>
          ELSE IF Len(chosen) = 0
          THEN /\ pc' = "exited"
               /\ exitCode' = 1
               /\ logged' = Append(logged, [kind |-> "error", what |-> "no-agents"])
               /\ UNCHANGED << agentsToBackup, agentIdx, dirIdx >>
          ELSE /\ agentsToBackup' = chosen
               /\ pc' = "agent"
               /\ agentIdx' = 1
               /\ dirIdx' = 0
               /\ UNCHANGED << exitCode, logged >>
  /\ UNCHANGED << passVars, findVars, laterVars >>
  /\ UNCHANGED << opts, env, config, fromKeychain, passphrase, calls, pathChecks >>

\* backupAgent: getAgent(agentConfig.id) is undefined -> warn and return
BackupAgentNotInRegistry ==
  /\ pc = "agent"
  /\ getAgent(agentsToBackup[agentIdx].id) = NoAgent
  /\ logged' = Append(logged, [kind |-> "warn", what |-> "not-in-registry",
                               agentIdx |-> agentIdx, dirIdx |-> 0])
  /\ Goto(AfterAgent(agentIdx))
  /\ UNCHANGED << passVars, findVars, laterVars >>
  /\ UNCHANGED << opts, env, config, fromKeychain, passphrase, agentsToBackup,
                  calls, pathChecks, exitCode >>

\* backupAgent: definition found, isRunning advisory, enter the directory loop
\* (the advisory only prints; no definition has an empty dataDirs list)
BackupAgentEnter ==
  /\ pc = "agent"
  /\ getAgent(agentsToBackup[agentIdx].id) # NoAgent
  /\ LET cfgI == agentsToBackup[agentIdx]
         dirs == EffectiveDataDirs(cfgI, getAgent(cfgI.id))
     IN IF Len(dirs) = 0 THEN Goto(AfterAgent(agentIdx))
        ELSE Goto([pc |-> "dir", agentIdx |-> agentIdx, dirIdx |-> 1])
  /\ UNCHANGED << passVars, findVars, laterVars >>
  /\ UNCHANGED << opts, env, config, fromKeychain, passphrase, agentsToBackup,
                  calls, pathChecks, logged, exitCode >>

CurrentAgentConfig == agentsToBackup[agentIdx]
CurrentAgentDef == getAgent(CurrentAgentConfig.id)
CurrentDataDir == EffectiveDataDirs(CurrentAgentConfig, CurrentAgentDef)[dirIdx]

\* variant: a missing directory returns from backupAgent instead of continuing
DirMissing_Returns ==
  /\ pc = "dir"
  /\ pathChecks' = pathChecks \cup
       {[agentIdx |-> agentIdx, dirIdx |-> dirIdx,
         path |-> expandHome(CurrentDataDir.path), exists |-> FALSE]}
  /\ logged' = Append(logged, [kind |-> "warn", what |-> "dir-missing",
                               agentIdx |-> agentIdx, dirIdx |-> dirIdx])
  /\ Goto(AfterAgent(agentIdx))
  /\ UNCHANGED << passVars, findVars, laterVars >>
  /\ UNCHANGED << opts, env, config, fromKeychain, passphrase, agentsToBackup,
                  calls, exitCode >>

\* directory loop: pathExists(resolvedDir) is false -> warn and continue
DirMissing ==
  /\ pc = "dir"
  /\ pathChecks' = pathChecks \cup
       {[agentIdx |-> agentIdx, dirIdx |-> dirIdx,
         path |-> expandHome(CurrentDataDir.path), exists |-> FALSE]}
  /\ logged' = Append(logged, [kind |-> "warn", what |-> "dir-missing",
                               agentIdx |-> agentIdx, dirIdx |-> dirIdx])
  /\ Goto(AfterDir(agentIdx, dirIdx))
  /\ UNCHANGED << passVars, findVars, laterVars >>
  /\ UNCHANGED << opts, env, config, fromKeychain, passphrase, agentsToBackup,
                  calls, exitCode >>

\* directory loop: the directory exists; excludes, tags and includes are
\* built (getCategoryIncludes may process.exit(1)) and backup() is issued
DirBackupStart ==
  /\ pc = "dir"
  /\ pathChecks' = pathChecks \cup
       {[agentIdx |-> agentIdx, dirIdx |-> dirIdx,
         path |-> expandHome(CurrentDataDir.path), exists |-> TRUE]}
  /\ LET excludes == BuildExcludes(CurrentAgentDef, CurrentAgentConfig, config)
         tags == BuildTags(CurrentAgentConfig, opts)
         inc == getCategoryIncludes(CurrentAgentConfig.id, opts.only)
     IN IF inc.kind = "exit"
          THEN /\ pc' = "exited"
               /\ exitCode' = 1
               /\ logged' = Append(logged, [kind |-> "error", what |-> inc.error,
                                            agentIdx |-> agentIdx, dirIdx |-> dirIdx,
                                            valid |-> inc.valid])
               /\ UNCHANGED << calls, agentIdx, dirIdx >>
          ELSE /\ calls' = Append(calls,
                   [ op |-> "backup",
                     path |-> expandHome(CurrentDataDir.path),
                     passphrase |-> passphrase,
                     tags |-> tags,
                     excludes |-> excludes,
                     includes |-> IF inc.kind = "nofilter" THEN Absent ELSE inc.patterns,
                     dryRun |-> opts.dryRun,
                     agentIdx |-> agentIdx,
                     dirIdx |-> dirIdx,
                     outcome |-> "inflight" ])
               /\ pc' = "await_backup"
               /\ UNCHANGED << logged, exitCode, agentIdx, dirIdx >>
  /\ UNCHANGED << passVars, findVars, laterVars >>
  /\ UNCHANGED << opts, env, config, fromKeychain, passphrase, agentsToBackup >>

SetOutcome(o) == [calls EXCEPT ![Len(calls)].outcome = o]

\* variant: backup(...) is not awaited, the loop goes on while it runs
BackupResolved_NotAwaited ==
  /\ pc = "await_backup"
  /\ Goto(AfterDir(agentIdx, dirIdx))
  /\ UNCHANGED << passVars, findVars, laterVars >>
  /\ UNCHANGED << opts, env, config, fromKeychain, passphrase, agentsToBackup,
                  calls, pathChecks, logged, exitCode >>

\* await backup(...) resolves with a summary
BackupResolved ==
  /\ pc = "await_backup"
  /\ calls' = SetOutcome("ok")
  /\ Goto(AfterDir(agentIdx, dirIdx))
  /\ UNCHANGED << passVars, findVars, laterVars >>
  /\ UNCHANGED << opts, env, config, fromKeychain, passphrase, agentsToBackup,
                  pathChecks, logged, exitCode >>

\* variant: the rejection is reported and raised again
BackupRejected_Rethrows ==
  /\ pc = "await_backup"
  /\ calls' = SetOutcome("failed")
  /\ logged' = Append(logged, [kind |-> "error", what |-> "backup-failed",
                               agentIdx |-> agentIdx, dirIdx |-> dirIdx])
  /\ pc' = "threw"
  /\ UNCHANGED << passVars, findVars, laterVars >>
  /\ UNCHANGED << opts, env, config, fromKeychain, passphrase, agentsToBackup,
                  pathChecks, exitCode, agentIdx, dirIdx >>

\* await backup(...) rejects: catch (err) { spinner.fail; log.error }
BackupRejected ==
  /\ pc = "await_backup"
  /\ calls' = SetOutcome("failed")
  /\ logged' = Append(logged, [kind |-> "error", what |-> "backup-failed",
                               agentIdx |-> agentIdx, dirIdx |-> dirIdx])
  /\ Goto(AfterDir(agentIdx, dirIdx))
  /\ UNCHANGED << passVars, findVars, laterVars >>
  /\ UNCHANGED << opts, env, config, fromKeychain, passphrase, agentsToBackup,
                  pathChecks, exitCode >>

\* retention suppressed: backupCommand returns
RetentionSkipped ==
  /\ pc = "retention"
  /\ ~ShouldApplyRetention(opts)
  /\ pc' = "done"
  /\ exitCode' = 0
  /\ UNCHANGED << passVars, findVars, laterVars >>
  /\ UNCHANGED << opts, env, config, fromKeychain, passphrase, agentsToBackup,
                  agentIdx, dirIdx, calls, pathChecks, logged >>

\* forget({storage, passphrase}, config.retention) is issued, without tags
ForgetStart ==
  /\ pc = "retention"
  /\ ShouldApplyRetention(opts)
  /\ calls' = Append(calls,
       [ op |-> "forget",
         path |-> Absent,
         passphrase |-> passphrase,
         tags |-> Absent,
         excludes |-> << >>,
         includes |-> Absent,
         dryRun |-> FALSE,
         agentIdx |-> 0,
         dirIdx |-> 0,
         outcome |-> "inflight" ])
  /\ pc' = "await_forget"
  /\ UNCHANGED << passVars, findVars, laterVars >>
  /\ UNCHANGED << opts, env, config, fromKeychain, passphrase, agentsToBackup,
                  agentIdx, dirIdx, pathChecks, logged, exitCode >>

\* await forget(...) resolves
ForgetResolved ==
  /\ pc = "await_forget"
  /\ calls' = SetOutcome("ok")
  /\ pc' = "done"
  /\ exitCode' = 0
  /\ UNCHANGED << passVars, findVars, laterVars >>
  /\ UNCHANGED << opts, env, config, fromKeychain, passphrase, agentsToBackup,
                  agentIdx, dirIdx, pathChecks, logged >>

\* await forget(...) rejects: catch (err) { forgetSpinner.warn(...) }
ForgetRejected ==
  /\ pc = "await_forget"
  /\ calls' = SetOutcome("failed")
  /\ logged' = Append(logged, [kind |-> "warn", what |-> "retention-failed",
                               agentIdx |-> 0, dirIdx |-> 0])
  /\ pc' = "done"
  /\ exitCode' = 0
  /\ UNCHANGED << passVars, findVars, laterVars >>
  /\ UNCHANGED << opts, env, config, fromKeychain, passphrase, agentsToBackup,
                  agentIdx, dirIdx, pathChecks >>

(***************************************************************************)
(* Passphrase resolution of the five commands, on the same sources.        *)
(***************************************************************************)
Commands == {"backup", "restore", "forget", "snapshots", "status"}

Pending == "<pending>"

\* resolvePassphrase of restoreCommand (cli/restore.ts)
restoreResolvePassphrase(explicit, envValue, keychainValue) ==
  IF Truthy(explicit) THEN explicit
  ELSE IF Truthy(envValue) THEN envValue
  ELSE IF Truthy(keychainValue) THEN keychainValue
  ELSE Absent

\* resolvePassphrase of forgetCommand (cli/forget.ts)
forgetResolvePassphrase(explicit, envValue, keychainValue) ==
  IF Truthy(explicit) THEN explicit
  ELSE IF Truthy(envValue) THEN envValue
  ELSE IF Truthy(keychainValue) THEN keychainValue
  ELSE Absent

\* resolvePassphrase of snapshotsCommand (cli/snapshots.ts)
snapshotsResolvePassphrase(explicit, envValue, keychainValue) ==
  IF Truthy(explicit) THEN explicit
  ELSE IF Truthy(envValue) THEN envValue
  ELSE IF Truthy(keychainValue) THEN keychainValue
  ELSE Absent

\* statusCommand: opts.passphrase ?? process.env.AGENTSTASH_PASSPHRASE ??
\* await getKeychainPassphrase(), then `if (!passphrase)` skips the remote part
statusPassphrase(explicit, envValue, keychainValue) ==
  LET p == IF ~Nullish(explicit) THEN explicit
           ELSE IF ~Nullish(envValue) THEN envValue
           ELSE keychainValue
  IN IF Truthy(p) THEN p ELSE Absent

PassInit ==
  /\ credentials \in [explicit : PassphraseOptions, env : EnvValues, keychain : KeychainValues]
  /\ resolved = [c \in Commands |-> Pending]

PassIdle ==
  /\ credentials = [explicit |-> Absent, env |-> Absent, keychain |-> Absent]
  /\ resolved = [c \in Commands |-> Pending]

\* backupCommand's `await resolvePassphrase(opts)`
BackupResolves ==
  /\ resolved["backup"] = Pending
  /\ resolved' = [resolved EXCEPT !["backup"] =
       resolvePassphrase(credentials.explicit, credentials.env, credentials.keychain)]
  /\ UNCHANGED << credentials, backupVars, findVars, laterVars >>

\* restoreCommand's `await resolvePassphrase(opts)`
RestoreResolves ==
  /\ resolved["restore"] = Pending
  /\ resolved' = [resolved EXCEPT !["restore"] =
       restoreResolvePassphrase(credentials.explicit, credentials.env, credentials.keychain)]
  /\ UNCHANGED << credentials, backupVars, findVars, laterVars >>

\* forgetCommand's `await resolvePassphrase(opts)`
ForgetResolves ==
  /\ resolved["forget"] = Pending
  /\ resolved' = [resolved EXCEPT !["forget"] =
       forgetResolvePassphrase(credentials.explicit, credentials.env, credentials.keychain)]
  /\ UNCHANGED << credentials, backupVars, findVars, laterVars >>

\* snapshotsCommand's `await resolvePassphrase(opts)`
SnapshotsResolves ==
  /\ resolved["snapshots"] = Pending
  /\ resolved' = [resolved EXCEPT !["snapshots"] =
       snapshotsResolvePassphrase(credentials.explicit, credentials.env, credentials.keychain)]
  /\ UNCHANGED << credentials, backupVars, findVars, laterVars >>

\* statusCommand's passphrase expression and its `if (!passphrase)` test
StatusResolves ==
  /\ resolved["status"] = Pending
  /\ resolved' = [resolved EXCEPT !["status"] =
       statusPassphrase(credentials.explicit, credentials.env, credentials.keychain)]
  /\ UNCHANGED << credentials, backupVars, findVars, laterVars >>

(***************************************************************************)
(* findSnapshotByTime.  Instants are whole minutes (60 000 ms).            *)
(***************************************************************************)
\* longest snapshot list and latest snapshot instant
MaxSnapshots == 3
MaxTime == 3
\* Date.now() of the run, and the largest N of "N unit(s) ago"
ClockNow == 2
MaxAmount == 1

Infinity == 1000000

Units == {"minute", "hour", "day", "week", "month"}

\* multipliers, in minutes
multipliers ==
  [ minute |-> 1, hour |-> 60, day |-> 1440, week |-> 10080, month |-> 43200 ]

\* the list handed over: snapshot i of the list has id i
SnapshotLists ==
  UNION { { [i \in 1..n |-> [id |-> i, time |-> times[i]]] : times \in [1..n -> 0..MaxTime] }
          : n \in 0..MaxSnapshots }

\* what timeStr parses to: the relative pattern, a date, or neither
TimeExpressions ==
  { [kind |-> "relative", amount |-> n, unit |-> u, value |-> 0] :
      n \in 0..MaxAmount, u \in Units }
  \cup { [kind |-> "absolute", amount |-> 0, unit |-> "none", value |-> t] : t \in 0..MaxTime }
  \cup { [kind |-> "invalid", amount |-> 0, unit |-> "none", value |-> 0] }

NoSnapshot == [id |-> 0, time |-> 0]
NoTimeStr == [kind |-> "none", amount |-> 0, unit |-> "none", value |-> 0]

Abs(x) == IF x < 0 THEN -x ELSE x

\* variant: a snapshot at the same distance replaces the current best
IsCloser_OrEqual(diff, currentBest) == diff <= currentBest

\* if (diff < bestDiff)
IsCloser(diff, currentBest) == diff < currentBest

FindInit ==
  /\ fpc = "parse"
  /\ snapshots \in SnapshotLists
  /\ timeStr \in TimeExpressions
  /\ targetTime = 0
  /\ snapIdx = 0
  /\ best = NoSnapshot
  /\ bestDiff = Infinity
  /\ found = NoSnapshot

FindIdle ==
  /\ fpc = "idle"
  /\ snapshots = << >>
  /\ timeStr = NoTimeStr
  /\ targetTime = 0
  /\ snapIdx = 0
  /\ best = NoSnapshot
  /\ bestDiff = Infinity
  /\ found = NoSnapshot

\* timeStr matches the relative pattern, or parses as a date
FindParse ==
  /\ fpc = "parse"
  /\ timeStr.kind \in {"relative", "absolute"}
  /\ targetTime' = IF timeStr.kind = "relative"
                     THEN ClockNow - timeStr.amount * multipliers[timeStr.unit]
                     ELSE timeStr.value
  /\ snapIdx' = 1
  /\ fpc' = "loop"
  /\ UNCHANGED << snapshots, timeStr, best, bestDiff, found, backupVars, passVars, laterVars >>

\* isNaN(targetTime): log.error and process.exit(1)
FindParseFails ==
  /\ fpc = "parse"
  /\ timeStr.kind = "invalid"
  /\ fpc' = "exited"
  /\ UNCHANGED << snapshots, timeStr, targetTime, snapIdx, best, bestDiff, found,
                  backupVars, passVars, laterVars >>

\* one iteration of `for (const snap of snapshots)`
FindLoopStep ==
  /\ fpc = "loop"
  /\ snapIdx <= Len(snapshots)
  /\ LET snap == snapshots[snapIdx]
         diff == Abs(snap.time - targetTime)
     IN IF IsCloser(diff, bestDiff)
          THEN /\ bestDiff' = diff
               /\ best' = snap
          ELSE UNCHANGED << best, bestDiff >>
  /\ snapIdx' = snapIdx + 1
  /\ UNCHANGED << fpc, snapshots, timeStr, targetTime, found, backupVars, passVars, laterVars >>

\* return best
FindReturn ==
  /\ fpc = "loop"
  /\ snapIdx > Len(snapshots)
  /\ found' = best
  /\ fpc' = "returned"
  /\ UNCHANGED << snapshots, timeStr, targetTime, snapIdx, best, bestDiff,
                  backupVars, passVars, laterVars >>

(***************************************************************************)
(* Specifications.                                                         *)
(***************************************************************************)
vars == << backupVars, passVars, findVars, laterVars >>

\* one run of backupCommand
Init == BackupInit /\ PassIdle /\ FindIdle /\ LaterIdle

Next ==
  \/ RequireConfig
  \/ ResolvePassphrase
  \/ SelectAgents
  \/ BackupAgentNotInRegistry
  \/ BackupAgentEnter
  \/ DirMissing
  \/ DirBackupStart
  \/ BackupResolved
  \/ BackupRejected
  \/ RetentionSkipped
  \/ ForgetStart
  \/ ForgetResolved
  \/ ForgetRejected

Spec == Init /\ [][Next]_vars

BackupIdle ==
  /\ pc = "idle"
  /\ opts = [passphrase |-> Absent, agent |-> Absent, only |-> Absent,
             dryRun |-> FALSE, forget |-> Absent]
  /\ env = Absent
  /\ config = Unread
  /\ fromKeychain = Absent
  /\ passphrase = Absent
  /\ agentsToBackup = << >>
  /\ agentIdx = 0
  /\ dirIdx = 0
  /\ calls = << >>
  /\ pathChecks = {}
  /\ logged = << >>
  /\ exitCode = Running

\* the five commands resolving their passphrase from the same sources
InitPass == BackupIdle /\ PassInit /\ FindIdle /\ LaterIdle

NextPass ==
  \/ BackupResolves
  \/ RestoreResolves
  \/ ForgetResolves
  \/ SnapshotsResolves
  \/ StatusResolves

SpecPass == InitPass /\ [][NextPass]_vars

\* one call of findSnapshotByTime
InitFind == BackupIdle /\ PassIdle /\ FindInit /\ LaterIdle

NextFind ==
  \/ FindParse
  \/ FindParseFails
  \/ FindLoopStep
  \/ FindReturn

SpecFind == InitFind /\ [][NextFind]_vars

TypeOK ==
  /\ pc \in {"idle", "start", "resolve", "select", "agent", "dir", "await_backup",
             "retention", "await_forget", "done", "exited", "threw"}
  /\ exitCode \in {Running, 0, 1}
  /\ fpc \in {"idle", "parse", "loop", "returned", "exited"}

(***************************************************************************)
(* Vocabulary of the properties.                                           *)
(***************************************************************************)
CallIds == 1..Len(calls)
BackupCallIds == { k \in CallIds : calls[k].op = "backup" }
ForgetCallIds == { k \in CallIds : calls[k].op = "forget" }

Selected == 1..Len(agentsToBackup)
InRegistry(i) == agentsToBackup[i].id \in DOMAIN agents
DirsOf(i) == 1..Len(EffectiveDataDirs(agentsToBackup[i], agents[agentsToBackup[i].id]))

BackupCallsAt(i, j) ==
  { k \in BackupCallIds : calls[k].agentIdx = i /\ calls[k].dirIdx = j }
ChecksAt(i, j) ==
  { c \in pathChecks : c.agentIdx = i /\ c.dirIdx = j }
WarningsAt(what, i, j) ==
  { m \in 1..Len(logged) : /\ logged[m].kind = "warn"
                           /\ logged[m].what = what
                           /\ logged[m].agentIdx = i
                           /\ logged[m].dirIdx = j }

LoopsOver == pc \in {"retention", "await_forget", "done"}
InLoops == pc \in {"agent", "dir", "await_backup", "exited"} /\ agentsToBackup # << >>

\* the loops have moved past agent i / past directory j of agent i
AgentPassed(i) == LoopsOver \/ (InLoops /\ i < agentIdx)
DirPassed(i, j) == LoopsOver \/ (InLoops /\ (i < agentIdx \/ (i = agentIdx /\ j < dirIdx)))

LastLogged == logged[Len(logged)]

(***************************************************************************)
(* C1: the passphrase handed to every engine invocation of backupCommand   *)
(* is the --passphrase option if it is non-empty, otherwise the            *)
(* environment value if it is non-empty, otherwise the keychain value.     *)
(***************************************************************************)
C1_PassphrasePriority ==
  \A k \in CallIds :
    /\ calls[k].passphrase \notin {Absent, ""}
    /\ calls[k].passphrase =
         IF opts.passphrase \notin {Absent, ""} THEN opts.passphrase
         ELSE IF env \notin {Absent, ""} THEN env
         ELSE fromKeychain

\* flag and environment both populated: a backup and the forget got the flag
C1_Witness ==
  /\ opts.passphrase = "flag-pass"
  /\ env = "env-pass"
  /\ \E k \in BackupCallIds : calls[k].passphrase = "flag-pass"
  /\ \E k \in ForgetCallIds : calls[k].passphrase = "flag-pass"

(***************************************************************************)
(* C2: on the same option, environment and keychain values the backup,     *)
(* restore, forget, snapshots and status commands resolve the same         *)
(* passphrase, or all resolve none.                                        *)
(***************************************************************************)
C2_CommandsAgree ==
  \A c, d \in Commands :
    (resolved[c] # Pending /\ resolved[d] # Pending) => resolved[c] = resolved[d]

C4_EngineFailureIsolated ==
  \A k \in CallIds : calls[k].outcome = "failed" =>
    /\ pc # "threw"
    \* reported
    /\ \E m \in 1..Len(logged) :
         /\ logged[m].what = IF calls[k].op = "backup" THEN "backup-failed"
                                                       ELSE "retention-failed"
         /\ logged[m].agentIdx = calls[k].agentIdx
         /\ logged[m].dirIdx = calls[k].dirIdx
    \* the loops went on: the position is past the failed directory
    /\ calls[k].op = "backup" => DirPassed(calls[k].agentIdx, calls[k].dirIdx)
    /\ calls[k].op = "forget" => (pc = "done" /\ exitCode = 0)
    \* the failure is never what ends the command: the only exit after it is
    \* the unknown-category exit of a later agent
    /\ pc = "exited" => /\ LastLogged.what = "unknown-category"
                        /\ LastLogged.agentIdx > calls[k].agentIdx
    \* on return every later directory was checked and, if there, backed up,
    \* and retention was attempted unless suppressed
    /\ pc = "done" =>
         /\ exitCode = 0
         /\ \A i \in Selected : InRegistry(i) => \A j \in DirsOf(i) :
              /\ ChecksAt(i, j) # {}
              /\ \A c \in ChecksAt(i, j) : c.exists => BackupCallsAt(i, j) # {}
         /\ (~opts.dryRun /\ opts.forget # "false") => ForgetCallIds # {}

\* the first directory of the first agent failed, a later agent was still
\* backed up, the forget failed too, and the command returned normally
C4_Witness ==
  /\ pc = "done"
  /\ exitCode = 0
  /\ \E k \in BackupCallIds :
       /\ calls[k].agentIdx = 1
       /\ calls[k].dirIdx = 1
       /\ calls[k].outcome = "failed"
  /\ \E k \in BackupCallIds : calls[k].agentIdx = 1 /\ calls[k].dirIdx = 2
  /\ \E k \in BackupCallIds : calls[k].agentIdx = 2 /\ calls[k].outcome = "ok"
  /\ \E k \in ForgetCallIds : calls[k].outcome = "failed"

(***************************************************************************)
(* C5: backupCommand invokes the engine's backup exactly once for each     *)
(* existing effective directory of each selected agent found in the        *)
(* registry, and never for an agent missing from the registry or for a     *)
(* directory that does not exist; such a skip only warns and never aborts  *)
(* the batch.                                                              *)
(***************************************************************************)
C5_SkipsAreNotFatal ==
  \* a backup is only ever issued for a registered agent's directory that exists
  /\ \A k \in BackupCallIds :
       /\ calls[k].agentIdx \in Selected
       /\ InRegistry(calls[k].agentIdx)
       /\ \E c \in ChecksAt(calls[k].agentIdx, calls[k].dirIdx) : c.exists
       /\ BackupCallsAt(calls[k].agentIdx, calls[k].dirIdx) = {k}
  \* an agent missing from the registry: one warning, no check, no backup
  /\ \A i \in Selected : (~InRegistry(i) /\ AgentPassed(i)) =>
       /\ Cardinality(WarningsAt("not-in-registry", i, 0)) = 1
       /\ \A k \in BackupCallIds : calls[k].agentIdx # i
       /\ \A c \in pathChecks : c.agentIdx # i
  \* every directory the loop has passed: backed up once if it exists,
  \* warned about and not backed up if it does not
  /\ \A i \in Selected : InRegistry(i) => \A j \in DirsOf(i) : DirPassed(i, j) =>
       /\ Cardinality(ChecksAt(i, j)) = 1
       /\ \A c \in ChecksAt(i, j) :
            IF c.exists
              THEN /\ Cardinality(BackupCallsAt(i, j)) = 1
                   /\ WarningsAt("dir-missing", i, j) = {}
              ELSE /\ BackupCallsAt(i, j) = {}
                   /\ Cardinality(WarningsAt("dir-missing", i, j)) = 1
  \* a skip never ends the command: it does not raise, and an exit is never
  \* the consequence of a warning
  /\ pc = "threw" => config = NoConfig
  /\ pc = "exited" => (exitCode = 1 /\ LastLogged.kind = "error")
  \* a normal return has passed every selected agent
  /\ pc = "done" => (exitCode = 0 /\ agentIdx = Len(agentsToBackup) + 1)

\* one agent missing from the registry, one directory missing, one backed up
C5_Witness ==
  /\ pc = "done"
  /\ \E i \in Selected : ~InRegistry(i)
  /\ \E i \in Selected : InRegistry(i) /\ \E j \in DirsOf(i) :
       /\ WarningsAt("dir-missing", i, j) # {}
       /\ \E j2 \in DirsOf(i) : j < j2 /\ BackupCallsAt(i, j2) # {}

(***************************************************************************)
(* C6: every engine backup invocation for agent config X carries the tags  *)
(* exactly ["agentstash", X.id] without --only and exactly                 *)
(* ["agentstash", X.id, category] with --only category.                    *)
(***************************************************************************)
C6_TagsExact ==
  \A k \in BackupCallIds :
    calls[k].tags =
      IF opts.only \in {Absent, ""}
        THEN << "agentstash", agentsToBackup[calls[k].agentIdx].id >>
        ELSE << "agentstash", agentsToBackup[calls[k].agentIdx].id, opts.only >>

\* both shapes of the tag list
C6_Witness ==
  \E k \in BackupCallIds : calls[k].tags = << "agentstash", "codex", "config" >>

(***************************************************************************)
(* C7: backupCommand invokes the engine's forget at most once, without a   *)
(* tag filter and only after every backup invocation has completed;        *)
(* exactly once on a return when dryRun is not set and forget is not       *)
(* false, and never when dryRun is set or forget is false.                 *)
(***************************************************************************)
C7_RetentionOnceAtEnd ==
  /\ Cardinality(ForgetCallIds) <= 1
  /\ \A k \in ForgetCallIds :
       /\ calls[k].tags = Absent
       /\ k = Len(calls)
       /\ \A m \in 1..(k - 1) : calls[m].op = "backup" /\ calls[m].outcome \in {"ok", "failed"}
       /\ agentIdx = Len(agentsToBackup) + 1
  /\ (opts.dryRun \/ opts.forget = "false") => ForgetCallIds = {}
  /\ (pc = "done" /\ ~opts.dryRun /\ opts.forget # "false") =>
       /\ Cardinality(ForgetCallIds) = 1
       /\ calls[Len(calls)].outcome \in {"ok", "failed"}

\* a failed backup, a skipped directory, and still one forget at the end
C7_Witness ==
  /\ pc = "done"
  /\ Cardinality(ForgetCallIds) = 1
  /\ \E k \in BackupCallIds : calls[k].outcome = "failed"
  /\ \E k \in BackupCallIds : calls[k].outcome = "ok"
  /\ \E m \in 1..Len(logged) : logged[m].what = "dir-missing"

(***************************************************************************)
(* C8: with --only naming something that is not a category of a selected   *)
(* registered agent, backupCommand exits non-zero reporting the valid      *)
(* categories, and neither a backup for that agent nor retention is        *)
(* invoked, whether or not the agent's data directories exist.             *)
(***************************************************************************)
C8_UnknownCategoryAborts ==
  ( /\ pc \in {"done", "exited"}
    /\ agentsToBackup # << >>
    /\ opts.only \notin {Absent, ""}
    /\ \E i \in Selected :
         InRegistry(i) /\ opts.only \notin DOMAIN agents[agentsToBackup[i].id].categories )
  => /\ pc = "exited"
     /\ exitCode = 1
     /\ LastLogged.what = "unknown-category"
     /\ LastLogged.valid = DOMAIN agents[agentsToBackup[LastLogged.agentIdx].id].categories
     /\ ForgetCallIds = {}
     /\ \A i \in Selected :
          (InRegistry(i) /\ opts.only \notin DOMAIN agents[agentsToBackup[i].id].categories)
            => \A k \in BackupCallIds : calls[k].agentIdx # i

(***************************************************************************)
(* C9: with --only C and no --agent, every enabled registered agent that   *)
(* defines C is processed: each of its directories is looked at and, when  *)
(* it exists, backed up with C's backupIncludes, whichever other enabled   *)
(* agents define C.                                                        *)
(***************************************************************************)
C9_OnlyCoversEveryEnabledAgent ==
  ( /\ pc \in {"done", "exited"}
    /\ agentsToBackup # << >>
    /\ opts.agent = Absent
    /\ opts.only \notin {Absent, ""} )
  => \A i \in Selected :
       (InRegistry(i) /\ opts.only \in DOMAIN agents[agentsToBackup[i].id].categories)
         => \A j \in DirsOf(i) :
              /\ ChecksAt(i, j) # {}
              /\ \A c \in ChecksAt(i, j) : c.exists =>
                   \E k \in BackupCallsAt(i, j) :
                     calls[k].includes =
                       agents[agentsToBackup[i].id].categories[opts.only].backupIncludes

(***************************************************************************)
(* C10: for a non-empty snapshot list and a resolvable target instant,     *)
(* findSnapshotByTime returns a snapshot of the list at minimal distance   *)
(* from the target, and among the snapshots at that distance the one that  *)
(* comes first in the list as given.                                       *)
(***************************************************************************)
C10_ClosestFirstInListOrder ==
  (fpc = "returned" /\ snapshots # << >>) =>
    \E i \in 1..Len(snapshots) :
      /\ found = snapshots[i]
      /\ \A m \in 1..Len(snapshots) :
           LET di == IF snapshots[i].time >= targetTime
                       THEN snapshots[i].time - targetTime
                       ELSE targetTime - snapshots[i].time
               dm == IF snapshots[m].time >= targetTime
                       THEN snapshots[m].time - targetTime
                       ELSE targetTime - snapshots[m].time
           IN /\ di <= dm
              /\ m < i => di < dm

\* two snapshots on either side of the target at the same distance, the
\* later one first in the list, and the first of the two returned
C10_Witness ==
  /\ fpc = "returned"
  /\ Len(snapshots) >= 3
  /\ snapshots[2].time > targetTime
  /\ snapshots[3].time < targetTime
  /\ snapshots[2].time - targetTime = targetTime - snapshots[3].time
  /\ snapshots[1].time - targetTime > snapshots[2].time - targetTime
  /\ found = snapshots[2]

AlphaLower ==
  << "a", "b", "c", "d", "e", "f", "g", "h", "i", "j", "k", "l", "m",
     "n", "o", "p", "q", "r", "s", "t", "u", "v", "w", "x", "y", "z" >>
AlphaUpper ==
  << "A", "B", "C", "D", "E", "F", "G", "H", "I", "J", "K", "L", "M",
     "N", "O", "P", "Q", "R", "S", "T", "U", "V", "W", "X", "Y", "Z" >>
DigitChars == << "0", "1", "2", "3", "4", "5", "6", "7", "8", "9" >>

\* String.prototype.toLowerCase / toUpperCase on one character
toLowerCase(c) ==
  IF \E i \in 1..26 : AlphaUpper[i] = c
    THEN AlphaLower[CHOOSE i \in 1..26 : AlphaUpper[i] = c]
    ELSE c
toUpperCase(c) ==
  IF \E i \in 1..26 : AlphaLower[i] = c
    THEN AlphaUpper[CHOOSE i \in 1..26 : AlphaLower[i] = c]
    ELSE c
LowerCased(str) == [i \in 1..Len(str) |-> toLowerCase(str[i])]
UpperCased(str) == [i \in 1..Len(str) |-> toUpperCase(str[i])]

\* the character classes \d and \s of the pattern
IsDigit(c) == \E i \in 1..10 : DigitChars[i] = c
IsSpace(c) == c \in {" ", "\t", "\n"}

Drop(str, n) == SubSeq(str, n + 1, Len(str))

\* length of the longest prefix of str made of digits, resp. of white space
RECURSIVE LeadingDigits(_)
LeadingDigits(str) ==
  IF str # << >> /\ IsDigit(Head(str)) THEN 1 + LeadingDigits(Tail(str)) ELSE 0
RECURSIVE LeadingSpaces(_)
LeadingSpaces(str) ==
  IF str # << >> /\ IsSpace(Head(str)) THEN 1 + LeadingSpaces(Tail(str)) ELSE 0

\* str begins with word, letter case ignored (the /i flag)
StartsWithIgnoreCase(str, word) ==
  /\ Len(str) >= Len(word)
  /\ LowerCased(SubSeq(str, 1, Len(word))) = word

\* the alternation (minute|hour|day|week|month), in its order
UnitWords ==
  << << "m", "i", "n", "u", "t", "e" >>,
     << "h", "o", "u", "r" >>,
     << "d", "a", "y" >>,
     << "w", "e", "e", "k" >>,
     << "m", "o", "n", "t", "h" >> >>
UnitNames == << "minute", "hour", "day", "week", "month" >>

NoMatch == [matched |-> FALSE, amount |-> << >>, unit |-> << >>]

\* timeStr.match(/^(\d+)\s+(minute|hour|day|week|month)s?\s+ago$/i): the two
\* captured groups, or no match
relativeMatch(str) ==
  LET d      == LeadingDigits(str)
      afterD == Drop(str, d)
      w1     == LeadingSpaces(afterD)
      afterW == Drop(afterD, w1)
      alts   == { k \in 1..Len(UnitWords) : StartsWithIgnoreCase(afterW, UnitWords[k]) }
  IN IF d = 0 \/ w1 = 0 \/ alts = {} THEN NoMatch
     ELSE
       LET k      == CHOOSE a \in alts : \A b \in alts : a <= b
           afterU == Drop(afterW, Len(UnitWords[k]))
           afterS == IF afterU # << >> /\ toLowerCase(Head(afterU)) = "s"
                       THEN Tail(afterU) ELSE afterU
           w2      == LeadingSpaces(afterS)
       IN IF w2 >= 1 /\ LowerCased(Drop(afterS, w2)) = << "a", "g", "o" >>
            THEN [matched |-> TRUE, amount |-> SubSeq(str, 1, d),
                  unit |-> SubSeq(afterW, 1, Len(UnitWords[k]))]
            ELSE NoMatch

\* parseInt(digits, 10)
RECURSIVE parseInt(_)
parseInt(digits) ==
  IF digits = << >> THEN 0
  ELSE 10 * parseInt(SubSeq(digits, 1, Len(digits) - 1))
       + (CHOOSE v \in 0..9 : DigitChars[v + 1] = digits[Len(digits)])

\* variant: a month of 31 days
unitMs_CalendarMonth ==
  [ minute |-> [hi |-> 0, lo |-> 60000],
    hour   |-> [hi |-> 3, lo |-> 600000],
    day    |-> [hi |-> 86, lo |-> 400000],
    week   |-> [hi |-> 604, lo |-> 800000],
    month  |-> [hi |-> 2678, lo |-> 400000] ]

\* const multipliers = { minute: 60_000, hour: 3_600_000, day: 86_400_000,
\*                       week: 604_800_000, month: 2_592_000_000 }
unitMs ==
  [ minute |-> [hi |-> 0, lo |-> 60000],
    hour   |-> [hi |-> 3, lo |-> 600000],
    day    |-> [hi |-> 86, lo |-> 400000],
    week   |-> [hi |-> 604, lo |-> 800000],
    month  |-> [hi |-> 2592, lo |-> 0] ]

\* multipliers[unit] ?? 0, unit being the lower-cased second group
MultiplierOf(unitChars) ==
  IF \E k \in 1..Len(UnitWords) : UnitWords[k] = unitChars
    THEN unitMs[UnitNames[CHOOSE k \in 1..Len(UnitWords) : UnitWords[k] = unitChars]]
    ELSE [hi |-> 0, lo |-> 0]

\* n * d, a - b, |a - b| and a < b on milliseconds
MsTimes(n, d) ==
  [hi |-> n * d.hi + (n * d.lo) \div 1000000, lo |-> (n * d.lo) % 1000000]
MsMinus(a, b) ==
  IF a.lo >= b.lo THEN [hi |-> a.hi - b.hi, lo |-> a.lo - b.lo]
                  ELSE [hi |-> a.hi - b.hi - 1, lo |-> a.lo + 1000000 - b.lo]
MsLess(a, b) == a.hi < b.hi \/ (a.hi = b.hi /\ a.lo < b.lo)
MsAbsDiff(a, b) == IF MsLess(a, b) THEN MsMinus(b, a) ELSE MsMinus(a, b)

(***************************************************************************)
(* Dates.  new Date(str).getTime() of the strings used here; NaN for a     *)
(* string that is no date.                                                 *)
(***************************************************************************)
NaN == [hi |-> 0, lo |-> -1]

\* "2025-11-01" and "2025-10-05T10:00:00Z"
AbsoluteDates ==
  << [text |-> << "2", "0", "2", "5", "-", "1", "1", "-", "0", "1" >>,
      ms   |-> [hi |-> 1761955, lo |-> 200000]],
     [text |-> << "2", "0", "2", "5", "-", "1", "0", "-", "0", "5", "T",
                  "1", "0", ":", "0", "0", ":", "0", "0", "Z" >>,
      ms   |-> [hi |-> 1759658, lo |-> 400000]] >>

DateGetTime(str) ==
  IF \E k \in 1..Len(AbsoluteDates) : AbsoluteDates[k].text = str
    THEN AbsoluteDates[CHOOSE k \in 1..Len(AbsoluteDates) : AbsoluteDates[k].text = str].ms
    ELSE NaN

\* Date.now() of the run: 2025-11-04T09:00:00.030Z or 2025-11-04T09:30:00.500Z
NowValues == { [hi |-> 1762246, lo |-> 800030], [hi |-> 1762248, lo |-> 600500] }

(***************************************************************************)
(* The repository as earlier backup runs left it: backupAgent takes one    *)
(* snapshot per data directory, tagged by BuildTags.  Snapshot k was taken *)
(* k minutes after 2025-11-03T09:00:00Z.                                   *)
(***************************************************************************)
MaxRuns == 1

ShortIdOf(k) == << "a", "1", "b", "2", "c", "3", "d", DigitChars[k + 1] >>

\* the (agent config, data directory) pairs one backup run goes through
RECURSIVE BackupPlan(_)
BackupPlan(list) ==
  IF list = << >> THEN << >>
  ELSE LET agentConfig == Head(list)
           agentDef == getAgent(agentConfig.id)
           dirs == IF agentDef = NoAgent THEN << >>
                   ELSE EffectiveDataDirs(agentConfig, agentDef)
       IN [j \in 1..Len(dirs) |-> [agentConfig |-> agentConfig, dataDir |-> dirs[j]]]
          \o BackupPlan(Tail(list))

RepoAfterRuns(cfg, runs) ==
  LET plan == BackupPlan(FilterEnabled(cfg.agents))
  IN [k \in 1..(runs * Len(plan)) |->
        LET step == plan[((k - 1) % Len(plan)) + 1]
        IN [ id       |-> k,
             short_id |-> ShortIdOf(k),
             time     |-> [hi |-> 1762160, lo |-> 400000 + 60000 * k],
             tags     |-> BuildTags(step.agentConfig, [only |-> Absent]),
             paths    |-> << expandHome(step.dataDir.path) >> ]]

\* the engine's listSnapshots(context, {tags}): the snapshots carrying every
\* tag of the filter, in repository order
HasTags(snap, tags) ==
  \A i \in 1..Len(tags) : \E j \in 1..Len(snap.tags) : snap.tags[j] = tags[i]
RECURSIVE listSnapshots(_, _)
listSnapshots(list, tags) ==
  IF list = << >> THEN << >>
  ELSE IF tags = Absent \/ HasTags(Head(list), tags)
         THEN << Head(list) >> \o listSnapshots(Tail(list), tags)
         ELSE listSnapshots(Tail(list), tags)

(***************************************************************************)
(* The --at strings tried, each with the way it was written.               *)
(***************************************************************************)
\* an option holding a string is the sequence of its characters; this is the
\* option left undefined
AbsentString == << "<absent>" >>
TruthyString(str) == str # AbsentString /\ str # << >>

RECURSIVE Decimal(_)
Decimal(n) ==
  IF n < 10 THEN << DigitChars[n + 1] >>
  ELSE Decimal(n \div 10) \o << DigitChars[(n % 10) + 1] >>

Ago == << "a", "g", "o" >>

\* "3 days ago"; and "03  DAY<tab>Ago": leading zero, singular, mixed case
RenderRelative(n, unitIdx, style) ==
  IF style = "plain"
    THEN Decimal(n) \o << " " >> \o UnitWords[unitIdx] \o << "s", " " >> \o Ago
    ELSE << "0" >> \o Decimal(n) \o << " ", " " >> \o UpperCased(UnitWords[unitIdx])
         \o << "\t", "A", "g", "o" >>

\* strings that are neither the pattern nor a date
OtherStrings ==
  << << "y", "e", "s", "t", "e", "r", "d", "a", "y" >>,
     << "3", "d", "a", "y", "s", " ", "a", "g", "o" >>,
     << "3", " ", "d", "a", "y", "s" >>,
     << "-", "3", " ", "d", "a", "y", "s", " ", "a", "g", "o" >>,
     << "3", " ", "y", "e", "a", "r", "s", " ", "a", "g", "o" >>,
     << "3", " ", "d", "a", "y", "s", " ", "a", "g", "o", " " >> >>

Amounts == {0, 1, 3, 12}

AtForms(snapshotCount) ==
  { [kind |-> "none"] }
  \cup { [kind |-> "relative", n |-> n, unit |-> u, style |-> IF n \in {1, 12} THEN "loud" ELSE "plain"] :
           n \in Amounts, u \in 1..Len(UnitWords) }
  \cup { [kind |-> "absolute", idx |-> i] : i \in 1..Len(AbsoluteDates) }
  \cup { [kind |-> "other", idx |-> i] : i \in 1..Len(OtherStrings) }
  \cup { [kind |-> "short_id", snap |-> k] : k \in 1..snapshotCount }

AtString(form, repository) ==
  CASE form.kind = "none"     -> AbsentString
    [] form.kind = "relative" -> RenderRelative(form.n, form.unit, form.style)
    [] form.kind = "absolute" -> AbsoluteDates[form.idx].text
    [] form.kind = "other"    -> OtherStrings[form.idx]
    [] form.kind = "short_id" -> repository[form.snap].short_id

(***************************************************************************)
(* findSnapshotByTime on character strings and exact milliseconds.         *)
(***************************************************************************)
\* bestDiff = Infinity
InfinityMs == [hi |-> 2147483647, lo |-> 0]

\* targetTime: Date.now() - amount * (multipliers[unit] ?? 0) when the
\* pattern matches, new Date(timeStr).getTime() otherwise
ParseTimeStr(str, now) ==
  LET m == relativeMatch(str)
  IN IF m.matched
       THEN MsMinus(now, MsTimes(parseInt(m.amount), MultiplierOf(LowerCased(m.unit))))
       ELSE DateGetTime(str)

\* the loop over snapshots, from the current best on
RECURSIVE ClosestFrom(_, _, _, _)
ClosestFrom(list, target, currentBest, currentDiff) ==
  IF list = << >> THEN currentBest
  ELSE LET diff == MsAbsDiff(Head(list).time, target)
       IN IF MsLess(diff, currentDiff)
            THEN ClosestFrom(Tail(list), target, Head(list), diff)
            ELSE ClosestFrom(Tail(list), target, currentBest, currentDiff)

NoSelection == [none |-> TRUE]

(***************************************************************************)
(* restoreCommand.                                                         *)
(***************************************************************************)
RestoreTargets == {Absent, "/tmp/restore"}

\* process.env.AGENTSTASH_PASSPHRASE is not set in the runs of restoreCommand
RestoreEnvValues == {Absent}

\* restoreCommand does not look at `enabled`
RestoreAgentConfig == { c \in AgentConfig : c.enabled }

RestoreConfigs ==
  [ agents : { l \in UNION { [1..n -> RestoreAgentConfig] : n \in 0..MaxAgents } :
                 \A i, j \in 1..Len(l) : i # j => l[i].id # l[j].id },
    exclude : {<< >>},
    retention : {Retention} ]

RestoreOptions(form, repository) ==
  [ passphrase : {Absent},
    agent : AgentOptions,
    only : {Absent, "sessions"},
    at : {AtString(form, repository)},
    target : RestoreTargets,
    dryRun : BOOLEAN ]

RestoreInit ==
  /\ rpc = "start"
  /\ rconfig \in RestoreConfigs \cup {NoConfig}
  /\ \E runs \in 0..MaxRuns :
       repo = IF rconfig = NoConfig THEN << >> ELSE RepoAfterRuns(rconfig, runs)
  /\ atForm \in AtForms(Len(repo))
  /\ ropts \in RestoreOptions(atForm, repo)
  /\ rnow \in NowValues
  /\ rpassphrase = Absent
  /\ rsnapshots = << >>
  /\ rtargetTime = [hi |-> 0, lo |-> 0]
  /\ selectedSnapshot = NoSelection
  /\ targetDir = Absent
  /\ rcalls = << >>
  /\ rlogged = << >>
  /\ rexit = Running
  /\ rprompt = [targetExists |-> "unchecked", answer |-> "not-asked"]

RestoreExit(what) ==
  /\ rpc' = "exited"
  /\ rexit' = 1
  /\ rlogged' = Append(rlogged, what)

\* const config = await requireConfig()
RestoreRequireConfig ==
  /\ rpc = "start"
  /\ rpc' = IF rconfig = NoConfig THEN "threw" ELSE "resolve"
  /\ UNCHANGED << ropts, atForm, rnow, repo, rconfig, rpassphrase, rsnapshots, rtargetTime,
                  selectedSnapshot, targetDir, rcalls, rlogged, rexit >>
  /\ UNCHANGED << rprompt, backupVars, passVars, findVars, notRestore >>

\* const passphrase = await resolvePassphrase(opts)
RestoreResolvePassphrase ==
  /\ rpc = "resolve"
  /\ \E e \in RestoreEnvValues :
     \E k \in (IF Truthy(ropts.passphrase) \/ Truthy(e) THEN {Absent} ELSE {Absent, "keychain-pass"}) :
       LET r == restoreResolvePassphrase(ropts.passphrase, e, k) IN
       /\ rpassphrase' = r
       /\ IF r = Absent
            THEN RestoreExit("no-passphrase")
            ELSE /\ rpc' = "agent"
                 /\ UNCHANGED << rexit, rlogged >>
  /\ UNCHANGED << ropts, atForm, rnow, repo, rconfig, rsnapshots, rtargetTime,
                  selectedSnapshot, targetDir, rcalls >>
  /\ UNCHANGED << rprompt, backupVars, passVars, findVars, notRestore >>

\* lines 346-367: --agent, or the only configured agent; config.agents.find
RestoreSelectAgent ==
  /\ rpc = "agent"
  /\ IF ~Truthy(ropts.agent) /\ Len(rconfig.agents) # 1
       THEN /\ RestoreExit("specify-agent")
            /\ UNCHANGED ropts
       ELSE LET id == IF Truthy(ropts.agent) THEN ropts.agent ELSE rconfig.agents[1].id
            IN /\ ropts' = [ropts EXCEPT !.agent = id]
               /\ IF FindAgentIndex(rconfig.agents, id) = 0
                    THEN RestoreExit("agent-not-configured")
                    ELSE /\ rpc' = "list"
                         /\ UNCHANGED << rexit, rlogged >>
  /\ UNCHANGED << atForm, rnow, repo, rconfig, rpassphrase, rsnapshots, rtargetTime,
                  selectedSnapshot, targetDir, rcalls >>
  /\ UNCHANGED << rprompt, backupVars, passVars, findVars, notRestore >>

\* const agentConfig = config.agents.find((a) => a.id === opts.agent)
RestoreAgentConfigOf == rconfig.agents[FindAgentIndex(rconfig.agents, ropts.agent)]

\* lines 369-381: listSnapshots(resticOpts, {tags: [agentConfig.id]}) resolves
RestoreListSnapshots ==
  /\ rpc = "list"
  /\ LET tags == << RestoreAgentConfigOf.id >>
         list == listSnapshots(repo, tags)
     IN /\ rcalls' = Append(rcalls, [op |-> "listSnapshots", tags |-> tags, outcome |-> "ok"])
        /\ rsnapshots' = list
        /\ IF Len(list) = 0
             THEN RestoreExit("no-snapshots")
             ELSE /\ rpc' = "select"
                  /\ UNCHANGED << rexit, rlogged >>
  /\ UNCHANGED << ropts, atForm, rnow, repo, rconfig, rpassphrase, rtargetTime,
                  selectedSnapshot, targetDir >>
  /\ UNCHANGED << rprompt, backupVars, passVars, findVars, notRestore >>

\* listSnapshots rejects: nothing in restoreCommand catches it
RestoreListRejected ==
  /\ rpc = "list"
  /\ rcalls' = Append(rcalls, [op |-> "listSnapshots", tags |-> << RestoreAgentConfigOf.id >>,
                               outcome |-> "failed"])
  /\ rpc' = "threw"
  /\ UNCHANGED << ropts, atForm, rnow, repo, rconfig, rpassphrase, rsnapshots, rtargetTime,
                  selectedSnapshot, targetDir, rlogged, rexit >>
  /\ UNCHANGED << rprompt, backupVars, passVars, findVars, notRestore >>

\* lines 383-400: findSnapshotByTime(snapshots, opts.at), or the latest
RestoreSelectSnapshot ==
  /\ rpc = "select"
  /\ IF TruthyString(ropts.at)
       THEN LET t == ParseTimeStr(ropts.at, rnow)
                closest == ClosestFrom(rsnapshots, t, NoSelection, InfinityMs)
            IN /\ rtargetTime' = t
               /\ IF t = NaN
                    THEN /\ RestoreExit("cannot-parse-time")
                         /\ UNCHANGED selectedSnapshot
                    ELSE IF closest = NoSelection
                    THEN /\ RestoreExit("no-snapshot-near")
                         /\ UNCHANGED selectedSnapshot
                    ELSE /\ selectedSnapshot' = closest
                         /\ rpc' = "target"
                         /\ UNCHANGED << rexit, rlogged >>
       ELSE /\ selectedSnapshot' = rsnapshots[Len(rsnapshots)]
            /\ rpc' = "target"
            /\ UNCHANGED << rtargetTime, rexit, rlogged >>
  /\ UNCHANGED << ropts, atForm, rnow, repo, rconfig, rpassphrase, rsnapshots,
                  targetDir, rcalls >>
  /\ UNCHANGED << rprompt, backupVars, passVars, findVars, notRestore >>

\* lines 402-413: --target, the configured dataDir, or the first default one
RestoreTargetDir ==
  /\ rpc = "target"
  /\ LET agentConfig == RestoreAgentConfigOf
         agentDef == getAgent(agentConfig.id)
     IN IF Truthy(ropts.target)
          THEN /\ targetDir' = ropts.target
               /\ rpc' = "confirm"
               /\ UNCHANGED << rexit, rlogged >>
        ELSE IF Truthy(agentConfig.dataDir)
          THEN /\ targetDir' = expandHome(agentConfig.dataDir)
               /\ rpc' = "confirm"
               /\ UNCHANGED << rexit, rlogged >>
        ELSE IF agentDef # NoAgent /\ Len(agentDef.dataDirs) > 0
          THEN /\ targetDir' = expandHome(agentDef.dataDirs[1].path)
               /\ rpc' = "confirm"
               /\ UNCHANGED << rexit, rlogged >>
        ELSE /\ RestoreExit("no-target")
             /\ UNCHANGED targetDir
  /\ UNCHANGED << ropts, atForm, rnow, repo, rconfig, rpassphrase, rsnapshots, rtargetTime,
                  selectedSnapshot, rcalls >>
  /\ UNCHANGED << rprompt, backupVars, passVars, findVars, notRestore >>

\* lines 415-432: a dry run asks nothing and does not look at the target
RestoreDryRunProceed ==
  /\ rpc = "confirm"
  /\ ropts.dryRun
  /\ rpc' = "includes"
  /\ UNCHANGED << ropts, atForm, rnow, repo, rconfig, rpassphrase, rsnapshots, rtargetTime,
                  selectedSnapshot, targetDir, rcalls, rlogged, rexit, rprompt >>
  /\ UNCHANGED << backupVars, passVars, findVars, notRestore >>

RestoreProceed_NoPrompt ==
  /\ rpc = "confirm"
  /\ ~ropts.dryRun
  /\ \E targetExists \in BOOLEAN :
       /\ rprompt' = [targetExists |-> IF targetExists THEN "yes" ELSE "no",
                      answer |-> "not-asked"]
       /\ rpc' = "includes"
  /\ UNCHANGED << ropts, atForm, rnow, repo, rconfig, rpassphrase, rsnapshots, rtargetTime,
                  selectedSnapshot, targetDir, rcalls, rlogged, rexit >>
  /\ UNCHANGED << backupVars, passVars, findVars, notRestore >>

\* pathExists(targetDir); no prompt when the target is missing or --target
\* was given, else the prompt answered yes
RestoreProceed ==
  /\ rpc = "confirm"
  /\ ~ropts.dryRun
  /\ \E targetExists \in BOOLEAN :
       /\ rprompt' = [targetExists |-> IF targetExists THEN "yes" ELSE "no",
                      answer |-> IF targetExists /\ ~Truthy(ropts.target)
                                   THEN "yes" ELSE "not-asked"]
       /\ rpc' = "includes"
  /\ UNCHANGED << ropts, atForm, rnow, repo, rconfig, rpassphrase, rsnapshots, rtargetTime,
                  selectedSnapshot, targetDir, rcalls, rlogged, rexit >>
  /\ UNCHANGED << backupVars, passVars, findVars, notRestore >>

\* the target exists, no --target, and the prompt is answered no: return
RestoreCancelled ==
  /\ rpc = "confirm"
  /\ ~ropts.dryRun
  /\ ~Truthy(ropts.target)
  /\ rprompt' = [targetExists |-> "yes", answer |-> "no"]
  /\ rpc' = "cancelled"
  /\ rexit' = 0
  /\ UNCHANGED << ropts, atForm, rnow, repo, rconfig, rpassphrase, rsnapshots, rtargetTime,
                  selectedSnapshot, targetDir, rcalls, rlogged >>
  /\ UNCHANGED << backupVars, passVars, findVars, notRestore >>

\* lines 434-447: getCategoryIncludes, then restore(selectedSnapshot.id, ...)
RestoreStart ==
  /\ rpc = "includes"
  /\ LET includes == restoreGetCategoryIncludes(RestoreAgentConfigOf.id, ropts.only)
     IN IF includes.kind = "exit"
          THEN /\ RestoreExit(includes.error)
               /\ UNCHANGED rcalls
          ELSE /\ rcalls' = Append(rcalls,
                    [ op |-> "restore", snapshotId |-> selectedSnapshot.id,
                      target |-> targetDir, passphrase |-> rpassphrase,
                      include |-> IF includes.kind = "includes" THEN includes.patterns
                                                                 ELSE Absent,
                      \* the fourth argument is { include: includes } and no more
                      optionKeys |-> {"include"},
                      outcome |-> "inflight" ])
               /\ rpc' = "await_restore"
               /\ UNCHANGED << rexit, rlogged >>
  /\ UNCHANGED << ropts, atForm, rnow, repo, rconfig, rpassphrase, rsnapshots, rtargetTime,
                  selectedSnapshot, targetDir >>
  /\ UNCHANGED << rprompt, backupVars, passVars, findVars, notRestore >>

\* await restore(...) resolves
RestoreResolved ==
  /\ rpc = "await_restore"
  /\ rcalls' = [rcalls EXCEPT ![Len(rcalls)].outcome = "ok"]
  /\ rpc' = "done"
  /\ rexit' = 0
  /\ UNCHANGED << ropts, atForm, rnow, repo, rconfig, rpassphrase, rsnapshots, rtargetTime,
                  selectedSnapshot, targetDir, rlogged >>
  /\ UNCHANGED << rprompt, backupVars, passVars, findVars, notRestore >>

\* await restore(...) rejects: spinner.fail, log.error, process.exit(1)
RestoreRejected ==
  /\ rpc = "await_restore"
  /\ rcalls' = [rcalls EXCEPT ![Len(rcalls)].outcome = "failed"]
  /\ RestoreExit("restore-failed")
  /\ UNCHANGED << ropts, atForm, rnow, repo, rconfig, rpassphrase, rsnapshots, rtargetTime,
                  selectedSnapshot, targetDir >>
  /\ UNCHANGED << rprompt, backupVars, passVars, findVars, notRestore >>

\* one run of restoreCommand
InitRestore ==
  /\ BackupIdle /\ PassIdle /\ FindIdle /\ RestoreInit /\ HealthIdle /\ ForgetIdle
  /\ CategoryIdle /\ RegistryIdle /\ StatusIdle

NextRestore ==
  \/ RestoreRequireConfig
  \/ RestoreResolvePassphrase
  \/ RestoreSelectAgent
  \/ RestoreListSnapshots
  \/ RestoreListRejected
  \/ RestoreSelectSnapshot
  \/ RestoreTargetDir
  \/ RestoreDryRunProceed
  \/ RestoreProceed
  \/ RestoreCancelled
  \/ RestoreStart
  \/ RestoreResolved
  \/ RestoreRejected

SpecRestore == InitRestore /\ [][NextRestore]_vars

(***************************************************************************)
(* restoreCommand: what the properties speak of.                           *)
(***************************************************************************)
RestoreCallIds == { k \in 1..Len(rcalls) : rcalls[k].op = "restore" }
RestoreLastLogged == IF rlogged = << >> THEN "none" ELSE rlogged[Len(rlogged)]

\* findSnapshotByTime(snapshots, opts.at) has been evaluated in this run
AtEvaluated ==
  /\ TruthyString(ropts.at)
  /\ \/ rpc \in {"target", "confirm", "includes", "await_restore", "done", "cancelled"}
     \/ /\ rpc = "exited"
        /\ RestoreLastLogged \in {"cannot-parse-time", "no-snapshot-near", "no-target",
                                  "unknown-category", "unknown-agent", "restore-failed"}

(***************************************************************************)
(* C12: an --at string "<N> <unit>[s] ago" (any letter case, N a decimal   *)
(* number) gives the target instant now - N * unitMs exactly, with unitMs  *)
(* 60000, 3600000, 86400000, 604800000, 2592000000 for minute, hour, day,  *)
(* week, month; "3 days ago" is now - 259200000 and "1 month ago" is       *)
(* now - 2592000000.  Every other string is taken as an absolute date, and *)
(* one that is no date ends the command with exit 1 before any restore.    *)
(***************************************************************************)
C12_RelativeTimeExact ==
  /\ AtEvaluated =>
       CASE atForm.kind = "relative" ->
              LET expectedMs == << [hi |-> 0, lo |-> 60000], [hi |-> 3, lo |-> 600000],
                                   [hi |-> 86, lo |-> 400000], [hi |-> 604, lo |-> 800000],
                                   [hi |-> 2592, lo |-> 0] >>
              IN /\ rtargetTime = MsMinus(rnow, MsTimes(atForm.n, expectedMs[atForm.unit]))
                 /\ RestoreLastLogged # "cannot-parse-time"
                 \* "3 days ago" and "1 month ago" at 2025-11-04T09:00:00.030Z
                 /\ (atForm.n = 3 /\ atForm.unit = 3 /\ rnow = [hi |-> 1762246, lo |-> 800030])
                      => rtargetTime = [hi |-> 1761987, lo |-> 600030]
                 /\ (atForm.n = 1 /\ atForm.unit = 5 /\ rnow = [hi |-> 1762246, lo |-> 800030])
                      => rtargetTime = [hi |-> 1759654, lo |-> 800030]
         [] atForm.kind = "absolute" ->
              /\ rtargetTime = AbsoluteDates[atForm.idx].ms
              /\ RestoreLastLogged # "cannot-parse-time"
         [] OTHER ->
              /\ rpc = "exited"
              /\ rexit = 1
              /\ RestoreLastLogged = "cannot-parse-time"
  /\ atForm.kind \in {"other", "short_id"} => RestoreCallIds = {}

\* "01  MONTH<tab>Ago" resolved to now - 2592000000 and the restore went on
C12_Witness ==
  /\ rpc = "done"
  /\ atForm.kind = "relative" /\ atForm.n = 1 /\ atForm.unit = 5
  /\ ropts.at = << "0", "1", " ", " ", "M", "O", "N", "T", "H", "\t", "A", "g", "o" >>
  /\ rnow = [hi |-> 1762248, lo |-> 600500]
  /\ rtargetTime = [hi |-> 1759656, lo |-> 600500]
  /\ RestoreCallIds # {}

(***************************************************************************)
(* C13: restoreCommand run with --at set to the short id of a snapshot S   *)
(* of the agent, as the snapshots command prints it, selects S.            *)
(***************************************************************************)
C13_ShortIdSelectsSnapshot ==
  ( /\ atForm.kind = "short_id"
    /\ AtEvaluated
    /\ \E i \in 1..Len(rsnapshots) : rsnapshots[i] = repo[atForm.snap] )
  => selectedSnapshot = repo[atForm.snap]

(***************************************************************************)
(* C14: after a backup run that backed up k >= 2 data directories of agent *)
(* X, restoreCommand for X without --at and --only restores the backed-up  *)
(* contents of all k directories, not only of one of them.                 *)
(***************************************************************************)
C14_RestoreCoversAllDirectories ==
  ( /\ rpc = "done"
    /\ atForm.kind = "none"
    /\ ~Truthy(ropts.only) )
  => LET backedUp == { repo[k].paths[1] :
                         k \in { m \in 1..Len(repo) : HasTags(repo[m], << ropts.agent >>) } }
         restored == { repo[rcalls[c].snapshotId].paths[1] :
                         c \in { m \in RestoreCallIds : rcalls[m].outcome = "ok" } }
     IN Cardinality(backedUp) >= 2 => backedUp \subseteq restored

(***************************************************************************)
(* runHealthChecks (core/health).                                          *)
(***************************************************************************)
\* the paths whose existence the checks look at
HealthPaths ==
  { "/home/user/.claude", "/home/user/.claude.json", "/home/user/.codex",
    "/home/user/work/agent-data" }

\* runHealthChecks goes through config.agents without looking at `enabled`
HealthConfigs ==
  {NoConfig} \cup
  [ agents : { l \in AgentConfigLists : \A i \in 1..Len(l) : l[i].enabled },
    exclude : {<< >>},
    retention : {Retention} ]

\* agentDef.detectInstalled(): existsSync of the agent's own home entries
detectInstalled(agentDef, files) ==
  IF agentDef.id = "claude-code"
    THEN "/home/user/.claude" \in files \/ "/home/user/.claude.json" \in files
    ELSE "/home/user/.codex" \in files

\* what execSync(`pgrep -f ...`) does: prints the matching pids, prints
\* nothing, or throws (pgrep exits non-zero when nothing matches)
ExecOutcomes == {"pids", "empty", "throws"}

\* checkProcessRunning(name): try { output.trim().length > 0 } catch { false }
checkProcessRunning(outcome) ==
  IF outcome = "throws" THEN FALSE ELSE outcome = "pids"

\* const dataDirs = agentConfig.dataDir ? [agentConfig.dataDir] : agentDef.dataDirs.map(d => d.path)
HealthDataDirs(agentConfig, agentDef) ==
  IF Truthy(agentConfig.dataDir)
    THEN << agentConfig.dataDir >>
    ELSE [j \in 1..Len(agentDef.dataDirs) |-> agentDef.dataDirs[j].path]

allDirsOk_Some(dataDirs, files) ==
  \E j \in 1..Len(dataDirs) : expandHome(dataDirs[j]) \in files

\* the for-loop over dataDirs: allDirsOk stays true while every pathExists does
allDirsOk(dataDirs, files) ==
  \A j \in 1..Len(dataDirs) : expandHome(dataDirs[j]) \in files

\* const displayName = agentDef?.displayName ?? agentConfig.id
DisplayNameOf(agentConfig) ==
  LET agentDef == getAgent(agentConfig.id)
  IN IF agentDef = NoAgent THEN agentConfig.id ELSE agentDef.displayName

\* the names of the entries, as the pieces the template strings join
ResticName == << "Restic binary" >>
ConfigName == << "Config" >>
AgentsName == << "Agents" >>
AgentName(displayName) == << "Agent: ", displayName >>
ProcessName(displayName) == << "  ", displayName, " process" >>
RemoteName == << "Remote repository" >>

HealthCheck(name, status, message) ==
  [name |-> name, status |-> status, message |-> message]

shouldProbeRemote_Defined(cfg, pass) ==
  cfg # NoConfig /\ pass # Absent

\* if (config && passphrase)
shouldProbeRemote(cfg, pass) ==
  cfg # NoConfig /\ Truthy(pass)

HealthInit ==
  /\ hpc = "restic"
  /\ hpassphrase \in PassphraseOptions
  /\ resticInstalled \in BOOLEAN
  /\ hfiles \in SUBSET HealthPaths
  /\ hconfig \in HealthConfigs
  /\ checks = << >>
  /\ hAgentIdx = 0
  /\ hcalls = << >>
  /\ hprobes = << >>

\* 1. Restic binary
HealthRestic ==
  /\ hpc = "restic"
  /\ checks' = Append(checks,
       IF resticInstalled THEN HealthCheck(ResticName, "ok", "version")
       ELSE HealthCheck(ResticName, "error", "not-installed"))
  /\ hpc' = "config"
  /\ UNCHANGED << hpassphrase, resticInstalled, hfiles, hconfig, hAgentIdx, hcalls, hprobes >>
  /\ UNCHANGED << backupVars, passVars, findVars, notHealth >>

\* 2. Config file found; 3. the warning of an empty agents list
HealthConfigFound ==
  /\ hpc = "config"
  /\ hconfig # NoConfig
  /\ checks' =
       LET withConfig == Append(checks, HealthCheck(ConfigName, "ok", "path"))
       IN IF Len(hconfig.agents) = 0
            THEN Append(withConfig, HealthCheck(AgentsName, "warn", "no-agents"))
            ELSE withConfig
  /\ hAgentIdx' = 1
  /\ hpc' = "agents"
  /\ UNCHANGED << hpassphrase, resticInstalled, hfiles, hconfig, hcalls, hprobes >>
  /\ UNCHANGED << backupVars, passVars, findVars, notHealth >>

\* 2. Config file not found: the agent loop is not entered
HealthConfigMissing ==
  /\ hpc = "config"
  /\ hconfig = NoConfig
  /\ checks' = Append(checks, HealthCheck(ConfigName, "error", "not-found"))
  /\ hpc' = "remote"
  /\ UNCHANGED << hpassphrase, resticInstalled, hfiles, hconfig, hAgentIdx, hcalls, hprobes >>
  /\ UNCHANGED << backupVars, passVars, findVars, notHealth >>

HealthAgentUnknown_Break ==
  /\ hpc = "agents"
  /\ hAgentIdx <= Len(hconfig.agents)
  /\ getAgent(hconfig.agents[hAgentIdx].id) = NoAgent
  /\ checks' = Append(checks,
       HealthCheck(AgentName(DisplayNameOf(hconfig.agents[hAgentIdx])), "warn", "unknown-agent"))
  /\ hAgentIdx' = Len(hconfig.agents) + 1
  /\ UNCHANGED << hpc, hpassphrase, resticInstalled, hfiles, hconfig, hcalls, hprobes >>
  /\ UNCHANGED << backupVars, passVars, findVars, notHealth >>

\* if (!agentDef) { push warn; continue }
HealthAgentUnknown ==
  /\ hpc = "agents"
  /\ hAgentIdx <= Len(hconfig.agents)
  /\ getAgent(hconfig.agents[hAgentIdx].id) = NoAgent
  /\ checks' = Append(checks,
       HealthCheck(AgentName(DisplayNameOf(hconfig.agents[hAgentIdx])), "warn", "unknown-agent"))
  /\ hAgentIdx' = hAgentIdx + 1
  /\ UNCHANGED << hpc, hpassphrase, resticInstalled, hfiles, hconfig, hcalls, hprobes >>
  /\ UNCHANGED << backupVars, passVars, findVars, notHealth >>

\* if (!installed) { push warn; continue }
HealthAgentNotInstalled ==
  /\ hpc = "agents"
  /\ hAgentIdx <= Len(hconfig.agents)
  /\ LET agentConfig == hconfig.agents[hAgentIdx]
         agentDef == getAgent(agentConfig.id)
     IN /\ agentDef # NoAgent
        /\ ~detectInstalled(agentDef, hfiles)
        /\ checks' = Append(checks,
             HealthCheck(AgentName(DisplayNameOf(agentConfig)), "warn", "not-installed"))
  /\ hAgentIdx' = hAgentIdx + 1
  /\ UNCHANGED << hpc, hpassphrase, resticInstalled, hfiles, hconfig, hcalls, hprobes >>
  /\ UNCHANGED << backupVars, passVars, findVars, notHealth >>

\* the data directory check of an installed agent
HealthAgentDirs ==
  /\ hpc = "agents"
  /\ hAgentIdx <= Len(hconfig.agents)
  /\ LET agentConfig == hconfig.agents[hAgentIdx]
         agentDef == getAgent(agentConfig.id)
     IN /\ agentDef # NoAgent
        /\ detectInstalled(agentDef, hfiles)
        /\ checks' = Append(checks,
             IF allDirsOk(HealthDataDirs(agentConfig, agentDef), hfiles)
               THEN HealthCheck(AgentName(DisplayNameOf(agentConfig)), "ok", "installed")
               ELSE HealthCheck(AgentName(DisplayNameOf(agentConfig)), "error", "data-dir-issue"))
        /\ IF agentDef.hasIsRunning
             THEN hpc' = "running" /\ UNCHANGED hAgentIdx
             ELSE hAgentIdx' = hAgentIdx + 1 /\ UNCHANGED hpc
  /\ UNCHANGED << hpassphrase, resticInstalled, hfiles, hconfig, hcalls, hprobes >>
  /\ UNCHANGED << backupVars, passVars, findVars, notHealth >>

\* if (agentDef.isRunning) { const running = await agentDef.isRunning(); ... }
HealthProcess ==
  /\ hpc = "running"
  /\ \E outcome \in ExecOutcomes :
       LET agentConfig == hconfig.agents[hAgentIdx]
           running == checkProcessRunning(outcome)
       IN /\ hprobes' = Append(hprobes,
               [agent |-> hAgentIdx, probe |-> "isRunning", outcome |-> outcome,
                entry |-> Len(checks) + 1])
          /\ checks' = Append(checks,
               IF running
                 THEN HealthCheck(ProcessName(DisplayNameOf(agentConfig)), "warn", "running")
                 ELSE HealthCheck(ProcessName(DisplayNameOf(agentConfig)), "ok", "not-running"))
  /\ hAgentIdx' = hAgentIdx + 1
  /\ hpc' = "agents"
  /\ UNCHANGED << hpassphrase, resticInstalled, hfiles, hconfig, hcalls >>
  /\ UNCHANGED << backupVars, passVars, findVars, notHealth >>

\* the for-loop over config.agents is exhausted
HealthAgentsDone ==
  /\ hpc = "agents"
  /\ hAgentIdx > Len(hconfig.agents)
  /\ hpc' = "remote"
  /\ UNCHANGED << hpassphrase, resticInstalled, hfiles, hconfig, checks, hAgentIdx, hcalls, hprobes >>
  /\ UNCHANGED << backupVars, passVars, findVars, notHealth >>

\* 4. Remote repository: checkRepo answers whether the repository is reachable
HealthRemoteProbe ==
  /\ hpc = "remote"
  /\ shouldProbeRemote(hconfig, hpassphrase)
  /\ \E repoOk \in BOOLEAN :
       /\ hcalls' = Append(hcalls, [fn |-> "checkRepo", passphrase |-> hpassphrase, repoOk |-> repoOk])
       /\ checks' = Append(checks,
            IF repoOk THEN HealthCheck(RemoteName, "ok", "repo-url")
            ELSE HealthCheck(RemoteName, "error", "cannot-reach"))
  /\ hpc' = "returned"
  /\ UNCHANGED << hpassphrase, resticInstalled, hfiles, hconfig, hAgentIdx, hprobes >>
  /\ UNCHANGED << backupVars, passVars, findVars, notHealth >>

\* else if (config && !passphrase)
HealthRemoteSkipped ==
  /\ hpc = "remote"
  /\ ~shouldProbeRemote(hconfig, hpassphrase)
  /\ hconfig # NoConfig /\ ~Truthy(hpassphrase)
  /\ checks' = Append(checks, HealthCheck(RemoteName, "warn", "skipped"))
  /\ hpc' = "returned"
  /\ UNCHANGED << hpassphrase, resticInstalled, hfiles, hconfig, hAgentIdx, hcalls, hprobes >>
  /\ UNCHANGED << backupVars, passVars, findVars, notHealth >>

\* neither branch: return checks
HealthRemoteNone ==
  /\ hpc = "remote"
  /\ ~shouldProbeRemote(hconfig, hpassphrase)
  /\ ~(hconfig # NoConfig /\ ~Truthy(hpassphrase))
  /\ hpc' = "returned"
  /\ UNCHANGED << hpassphrase, resticInstalled, hfiles, hconfig, checks, hAgentIdx, hcalls, hprobes >>
  /\ UNCHANGED << backupVars, passVars, findVars, notHealth >>

InitHealth ==
  /\ BackupIdle /\ PassIdle /\ FindIdle /\ RestoreIdle /\ HealthInit /\ ForgetIdle
  /\ CategoryIdle /\ RegistryIdle /\ StatusIdle

NextHealth ==
  \/ HealthRestic
  \/ HealthConfigFound
  \/ HealthConfigMissing
  \/ HealthAgentUnknown
  \/ HealthAgentNotInstalled
  \/ HealthAgentDirs
  \/ HealthProcess
  \/ HealthAgentsDone
  \/ HealthRemoteProbe
  \/ HealthRemoteSkipped
  \/ HealthRemoteNone

SpecHealth == InitHealth /\ [][NextHealth]_vars

(***************************************************************************)
(* Vocabulary of the health properties.                                    *)
(***************************************************************************)
\* positions of the entries of the list carrying a given name
EntriesNamed(name) == { i \in 1..Len(checks) : checks[i].name = name }

HealthReturned == hpc = "returned"

NoPassphraseSupplied == hpassphrase \in {"<absent>", ""}

(***************************************************************************)
(* C15: checkRepo is called if and only if a configuration is present and  *)
(* a non-empty passphrase was supplied, and then 'Remote repository' is ok *)
(* when it answers true and error when it answers false; with a            *)
(* configuration and no passphrase the entry is a warn and checkRepo is    *)
(* not called; without a configuration there is no such entry and no call. *)
(***************************************************************************)
C15_RemoteProbeIffConfigAndPassphrase ==
  /\ Len(hcalls) <= 1
  /\ hcalls # << >> => hconfig # NoConfig /\ ~NoPassphraseSupplied
  /\ HealthReturned =>
       IF hconfig = NoConfig
         THEN EntriesNamed(RemoteName) = {} /\ hcalls = << >>
       ELSE IF NoPassphraseSupplied
         THEN /\ hcalls = << >>
              /\ Cardinality(EntriesNamed(RemoteName)) = 1
              /\ \A i \in EntriesNamed(RemoteName) : checks[i].status = "warn"
       ELSE /\ Len(hcalls) = 1
            /\ Cardinality(EntriesNamed(RemoteName)) = 1
            /\ \A i \in EntriesNamed(RemoteName) :
                 checks[i].status = IF hcalls[1].repoOk THEN "ok" ELSE "error"

C15_Witness ==
  /\ HealthReturned
  /\ Len(hcalls) = 1
  /\ ~hcalls[1].repoOk
  /\ checks[Len(checks)].name = RemoteName
  /\ checks[Len(checks)].status = "error"

\* the directories the check of a configured agent resolves, written out
ResolvedDirsOf(agentConfig) ==
  IF agentConfig.dataDir = "~/work/agent-data" THEN {"/home/user/work/agent-data"}
  ELSE IF agentConfig.id = "claude-code" THEN {"/home/user/.claude", "/home/user/.claude.json"}
  ELSE IF agentConfig.id = "codex" THEN {"/home/user/.codex"}
  ELSE {}

\* the home entries whose presence makes an agent count as installed
InstallMarkersOf(id) ==
  IF id = "claude-code" THEN {"/home/user/.claude", "/home/user/.claude.json"}
  ELSE IF id = "codex" THEN {"/home/user/.codex"}
  ELSE {}

OneKnownAgent ==
  /\ hconfig # NoConfig
  /\ Len(hconfig.agents) = 1
  /\ hconfig.agents[1].id \in {"claude-code", "codex"}

\* 'Restic binary' and 'Config' carry the status the binary and the file give
FirstTwoUnaffected ==
  /\ Len(checks) >= 2
  /\ checks[1].name = ResticName
  /\ checks[1].status = IF resticInstalled THEN "ok" ELSE "error"
  /\ checks[2].name = ConfigName
  /\ checks[2].status = IF hconfig = NoConfig THEN "error" ELSE "ok"

(***************************************************************************)
(* C16: with one catalog-known agent configured none of whose resolved     *)
(* data directories exists, the returned list has an 'Agent: <displayName>'*)
(* entry of status error, and 'Restic binary' and 'Config' keep the status *)
(* they would have otherwise.                                              *)
(***************************************************************************)
C16_MissingDataDirIsError ==
  (HealthReturned /\ OneKnownAgent /\ ResolvedDirsOf(hconfig.agents[1]) \cap hfiles = {}) =>
    /\ \E i \in EntriesNamed(AgentName(DisplayNameOf(hconfig.agents[1]))) :
         checks[i].status = "error"
    /\ FirstTwoUnaffected

(***************************************************************************)
(* C16 (amended): with one catalog-known agent configured, the returned    *)
(* list has exactly one 'Agent: <displayName>' entry; it is warn when none *)
(* of the agent's install markers exists (the agent counts as not          *)
(* installed, whatever its data directories), error when the agent is      *)
(* installed and some resolved data directory does not exist, ok           *)
(* otherwise; 'Restic binary' and 'Config' keep their own status.          *)
(***************************************************************************)
C16_MissingDataDirOfInstalledAgentIsError ==
  (HealthReturned /\ OneKnownAgent) =>
    LET agentConfig == hconfig.agents[1]
        entries == EntriesNamed(AgentName(DisplayNameOf(agentConfig)))
        installed == InstallMarkersOf(agentConfig.id) \cap hfiles # {}
        missing == ResolvedDirsOf(agentConfig) \ hfiles # {}
    IN /\ Cardinality(entries) = 1
       /\ \A i \in entries :
            checks[i].status = IF ~installed THEN "warn"
                               ELSE IF missing THEN "error" ELSE "ok"
       /\ FirstTwoUnaffected

C16_Witness ==
  /\ HealthReturned
  /\ OneKnownAgent
  /\ resticInstalled
  /\ hconfig.agents[1].id = "codex"
  /\ hconfig.agents[1].dataDir = "~/work/agent-data"
  /\ "/home/user/.codex" \in hfiles
  /\ "/home/user/work/agent-data" \notin hfiles
  /\ checks[3] = HealthCheck(AgentName("Codex CLI"), "error", "data-dir-issue")

AgentEntries == { i \in 1..Len(checks) : checks[i].name[1] = "Agent: " }

\* the position of the entry of the k-th configured agent
AgentEntryOf(k) ==
  CHOOSE i \in AgentEntries : Cardinality({ j \in AgentEntries : j <= i }) = k

(***************************************************************************)
(* C18: the returned list starts with the one 'Restic binary' entry and    *)
(* the one 'Config' entry; without a configuration these are the whole     *)
(* list; with one, the k-th 'Agent: ...' entry is that of the k-th         *)
(* configured agent (warn when the catalog does not know it), every other  *)
(* entry in between is the process entry right after its agent's entry (or *)
(* the notice of an empty agent list), and 'Remote repository' comes last. *)
(***************************************************************************)
C18_OrderedList ==
  HealthReturned =>
    /\ Len(checks) >= 2
    /\ checks[1].name = ResticName
    /\ checks[2].name = ConfigName
    /\ EntriesNamed(ResticName) = {1}
    /\ EntriesNamed(ConfigName) = {2}
    /\ hconfig = NoConfig => Len(checks) = 2
    /\ hconfig # NoConfig =>
         /\ EntriesNamed(RemoteName) = {Len(checks)}
         /\ Cardinality(AgentEntries) = Len(hconfig.agents)
         /\ \A k \in 1..Len(hconfig.agents) :
              LET entry == checks[AgentEntryOf(k)]
              IN /\ entry.name = << "Agent: ", DisplayNameOf(hconfig.agents[k]) >>
                 /\ hconfig.agents[k].id \notin {"claude-code", "codex"} =>
                      entry.status = "warn"
         /\ \A i \in 3..(Len(checks) - 1) :
              \/ i \in AgentEntries
              \/ /\ (i - 1) \in AgentEntries
                 /\ checks[i].name = << "  ", checks[i - 1].name[2], " process" >>
              \/ /\ hconfig.agents = << >>
                 /\ i = 3
                 /\ checks[i].name = AgentsName

C18_Witness ==
  /\ HealthReturned
  /\ hconfig # NoConfig
  /\ Len(hconfig.agents) = 2
  /\ hconfig.agents[1].id = "ghost"
  /\ hconfig.agents[2].id = "claude-code"
  /\ Len(checks) = 6
  /\ checks[3].status = "warn"
  /\ checks[4].name = << "Agent: ", "Claude Code" >>
  /\ checks[5].name = << "  ", "Claude Code", " process" >>
  /\ checks[6].name = RemoteName

(***************************************************************************)
(* forgetCommand (cli/forget).                                             *)
(***************************************************************************)
\* --agent values: none, empty, two registered ids and one that is not
ForgetAgentOptions == {Absent, "", "claude-code", "codex", "ghost"}

ForgetCommandOptions ==
  [ passphrase : {Absent, "flag-pass"}, agent : ForgetAgentOptions ]

\* a retention policy other than DEFAULT_RETENTION
ShortRetention == [keepLast |-> 1, keepDaily |-> 0, keepWeekly |-> 0, keepMonthly |-> 0]

ForgetConfigs ==
  {NoConfig} \cup
  [ agents : {<< [id |-> "claude-code", enabled |-> TRUE, dataDir |-> Absent, excludes |-> Absent],
                [id |-> "codex", enabled |-> TRUE, dataDir |-> Absent, excludes |-> Absent] >>},
    exclude : {<< >>},
    retention : {Retention, ShortRetention} ]

\* the repositories forgetCommand may find: what 0..MaxRuns+1 backup runs of
\* both agents left
ForgetRepos ==
  { RepoAfterRuns([agents |-> << [id |-> "claude-code", enabled |-> TRUE, dataDir |-> Absent, excludes |-> Absent],
                                 [id |-> "codex", enabled |-> TRUE, dataDir |-> Absent, excludes |-> Absent] >>],
                  runs) : runs \in 0..(MaxRuns + 1) }

\* const tags = opts.agent ? [opts.agent] : undefined
ForgetTags(o) == IF Truthy(o.agent) THEN << o.agent >> ELSE Absent

Removed_Reversed(b, a) == Len(a) - Len(b)

\* const removed = before.length - after.length
Removed(b, a) == Len(b) - Len(a)

\* positions of the snapshots a tag filter selects
Matching(list, tags) ==
  { i \in 1..Len(list) : tags = Absent \/ HasTags(list[i], tags) }

\* the snapshots the engine may remove: those the filter selects, except the
\* keepLast most recent of them; which of these the daily, weekly and monthly
\* counts keep is the engine's decision
Removable(list, retention, tags) ==
  LET matching == Matching(list, tags)
  IN { i \in matching : Cardinality({ j \in matching : j > i }) >= retention.keepLast }

RECURSIVE Without(_, _, _)
Without(list, gone, from) ==
  IF from > Len(list) THEN << >>
  ELSE IF from \in gone THEN Without(list, gone, from + 1)
  ELSE << list[from] >> \o Without(list, gone, from + 1)

\* the engine's forget(context, retention, {tags}): the repositories it may leave
forget(list, retention, tags) ==
  { Without(list, gone, 1) : gone \in SUBSET Removable(list, retention, tags) }

ForgetInit ==
  /\ gpc = "start"
  /\ gopts \in ForgetCommandOptions
  /\ gconfig \in ForgetConfigs
  /\ gpassphrase = Absent
  /\ grepo \in ForgetRepos
  /\ grepoAtStart = grepo
  /\ before = << >>
  /\ after = << >>
  /\ gcalls = << >>
  /\ greport = [printed |-> FALSE]
  /\ gexit = Running

\* const config = await requireConfig()
ForgetRequireConfig ==
  /\ gpc = "start"
  /\ gpc' = IF gconfig = NoConfig THEN "threw" ELSE "resolve"
  /\ UNCHANGED << gopts, gconfig, gpassphrase, grepo, grepoAtStart, before, after, gcalls,
                  greport, gexit >>
  /\ UNCHANGED << backupVars, passVars, findVars, notForget >>

\* const passphrase = await resolvePassphrase(opts)
ForgetResolvePassphrase ==
  /\ gpc = "resolve"
  /\ \E k \in (IF Truthy(gopts.passphrase) THEN {Absent} ELSE {Absent, "keychain-pass"}) :
       LET r == forgetResolvePassphrase(gopts.passphrase, Absent, k) IN
       /\ gpassphrase' = r
       /\ IF r = Absent
            THEN gpc' = "exited" /\ gexit' = 1
            ELSE gpc' = "before" /\ UNCHANGED gexit
  /\ UNCHANGED << gopts, gconfig, grepo, grepoAtStart, before, after, gcalls, greport >>
  /\ UNCHANGED << backupVars, passVars, findVars, notForget >>

\* const before = await listSnapshots(resticOpts, { tags })
ForgetCountBefore ==
  /\ gpc = "before"
  /\ LET tags == ForgetTags(gopts)
     IN /\ gcalls' = Append(gcalls, [op |-> "listSnapshots", tags |-> tags, outcome |-> "ok"])
        /\ before' = listSnapshots(grepo, tags)
  /\ gpc' = "forget"
  /\ UNCHANGED << gopts, gconfig, gpassphrase, grepo, grepoAtStart, after, greport, gexit >>
  /\ UNCHANGED << backupVars, passVars, findVars, notForget >>

\* the first listSnapshots rejects: it is outside the try block
ForgetCountBeforeRejected ==
  /\ gpc = "before"
  /\ gcalls' = Append(gcalls, [op |-> "listSnapshots", tags |-> ForgetTags(gopts), outcome |-> "failed"])
  /\ gpc' = "threw"
  /\ UNCHANGED << gopts, gconfig, gpassphrase, grepo, grepoAtStart, before, after, greport, gexit >>
  /\ UNCHANGED << backupVars, passVars, findVars, notForget >>

\* await forget(resticOpts, config.retention, { tags })
ForgetApply ==
  /\ gpc = "forget"
  /\ LET tags == ForgetTags(gopts)
     IN /\ gcalls' = Append(gcalls, [op |-> "forget", retention |-> gconfig.retention,
                                     tags |-> tags, outcome |-> "ok"])
        /\ grepo' \in forget(grepo, gconfig.retention, tags)
  /\ gpc' = "after"
  /\ UNCHANGED << gopts, gconfig, gpassphrase, grepoAtStart, before, after, greport, gexit >>
  /\ UNCHANGED << backupVars, passVars, findVars, notForget >>

\* forget rejects: catch (err) { spinner.fail; log.error; process.exit(1) }
ForgetApplyRejected ==
  /\ gpc = "forget"
  /\ gcalls' = Append(gcalls, [op |-> "forget", retention |-> gconfig.retention,
                               tags |-> ForgetTags(gopts), outcome |-> "failed"])
  /\ gpc' = "exited"
  /\ gexit' = 1
  /\ UNCHANGED << gopts, gconfig, gpassphrase, grepo, grepoAtStart, before, after, greport >>
  /\ UNCHANGED << backupVars, passVars, findVars, notForget >>

\* const after = await listSnapshots(...); removed; the three log.kv lines
ForgetCountAfter ==
  /\ gpc = "after"
  /\ LET tags == ForgetTags(gopts)
         list == listSnapshots(grepo, tags)
     IN /\ gcalls' = Append(gcalls, [op |-> "listSnapshots", tags |-> tags, outcome |-> "ok"])
        /\ after' = list
        /\ greport' = [printed |-> TRUE, before |-> Len(before), after |-> Len(list),
                       removed |-> Removed(before, list)]
  /\ gpc' = "done"
  /\ UNCHANGED << gopts, gconfig, gpassphrase, grepo, grepoAtStart, before, gexit >>
  /\ UNCHANGED << backupVars, passVars, findVars, notForget >>

\* the second listSnapshots rejects inside the try block
ForgetCountAfterRejected ==
  /\ gpc = "after"
  /\ gcalls' = Append(gcalls, [op |-> "listSnapshots", tags |-> ForgetTags(gopts), outcome |-> "failed"])
  /\ gpc' = "exited"
  /\ gexit' = 1
  /\ UNCHANGED << gopts, gconfig, gpassphrase, grepo, grepoAtStart, before, after, greport >>
  /\ UNCHANGED << backupVars, passVars, findVars, notForget >>

InitForget ==
  /\ BackupIdle /\ PassIdle /\ FindIdle /\ RestoreIdle /\ HealthIdle /\ ForgetInit
  /\ CategoryIdle /\ RegistryIdle /\ StatusIdle

NextForget ==
  \/ ForgetRequireConfig
  \/ ForgetResolvePassphrase
  \/ ForgetCountBefore
  \/ ForgetCountBeforeRejected
  \/ ForgetApply
  \/ ForgetApplyRejected
  \/ ForgetCountAfter
  \/ ForgetCountAfterRejected

SpecForget == InitForget /\ [][NextForget]_vars

(***************************************************************************)
(* Vocabulary of the forget properties.                                    *)
(***************************************************************************)
\* the number of snapshots of a repository carrying the --agent value as a
\* tag, every snapshot when no agent was given
CountFor(list, agent) ==
  Cardinality({ i \in 1..Len(list) :
    \/ agent \in {"<absent>", ""}
    \/ \E j \in 1..Len(list[i].tags) : list[i].tags[j] = agent })

\* the tag filter the --agent option stands for
FilterFor(agent) == IF agent \in {"<absent>", ""} THEN "<absent>" ELSE << agent >>

(***************************************************************************)
(* C19: a forgetCommand that completes has issued exactly three engine     *)
(* calls - listSnapshots, forget with config.retention, listSnapshots -    *)
(* all with the one tag filter the --agent option stands for, and prints   *)
(* before = the matching snapshots it found, after = the matching          *)
(* snapshots left, removed = before - after.                               *)
(***************************************************************************)
C19_ForgetReport ==
  gpc = "done" =>
    /\ Len(gcalls) = 3
    /\ gcalls[1].op = "listSnapshots"
    /\ gcalls[2].op = "forget"
    /\ gcalls[3].op = "listSnapshots"
    /\ gcalls[2].retention = gconfig.retention
    /\ \A c \in 1..3 : gcalls[c].tags = FilterFor(gopts.agent)
    /\ greport.printed
    /\ greport.before = CountFor(grepoAtStart, gopts.agent)
    /\ greport.after = CountFor(grepo, gopts.agent)
    /\ greport.removed = greport.before - greport.after

C19_Witness ==
  /\ gpc = "done"
  /\ gopts.agent = "claude-code"
  /\ Len(grepoAtStart) = 6
  /\ gconfig.retention.keepLast = 1
  /\ greport = [printed |-> TRUE, before |-> 4, after |-> 1, removed |-> 3]

(***************************************************************************)
(* getCategoryIncludes, called on its own in both directions.              *)
(***************************************************************************)
\* the --only values tried: none, empty, every category of either agent, and
\* names that are no category of any agent
CategoryNames ==
  {Absent, ""} \cup CategoryKeys(ClaudeCodeDef) \cup CategoryKeys(CodexDef)
  \cup {"bogus-category", "Sessions", "constructor", "toString", "__proto__"}

CategoryInit ==
  /\ cpc = "ready"
  /\ cargs \in [agentId : ConfiguredIds, only : CategoryNames]
  /\ cresult = [backup |-> [kind |-> "pending"], restore |-> [kind |-> "pending"]]

\* getCategoryIncludes(agentId, only) of the backup part
CategoryBackup ==
  /\ cpc \in {"ready", "called"}
  /\ cresult.backup.kind = "pending"
  /\ cresult' = [cresult EXCEPT !.backup = getCategoryIncludes(cargs.agentId, cargs.only)]
  /\ cpc' = "called"
  /\ UNCHANGED cargs
  /\ UNCHANGED << backupVars, passVars, findVars, notCategory >>

\* getCategoryIncludes(agentId, only) of the restore part
CategoryRestore ==
  /\ cpc \in {"ready", "called"}
  /\ cresult.restore.kind = "pending"
  /\ cresult' = [cresult EXCEPT !.restore = restoreGetCategoryIncludes(cargs.agentId, cargs.only)]
  /\ cpc' = "called"
  /\ UNCHANGED cargs
  /\ UNCHANGED << backupVars, passVars, findVars, notCategory >>

InitCategory ==
  /\ BackupIdle /\ PassIdle /\ FindIdle /\ RestoreIdle /\ HealthIdle /\ ForgetIdle
  /\ CategoryInit /\ RegistryIdle /\ StatusIdle

NextCategory == CategoryBackup \/ CategoryRestore

SpecCategory == InitCategory /\ [][NextCategory]_vars

\* the category names of the two registered agents, as their definitions list them
OwnCategories(agentId) ==
  IF agentId = "claude-code"
    THEN {"config", "secrets", "sessions", "skills", "settings", "history", "workspace"}
  ELSE IF agentId = "codex" THEN {"config", "settings"}
  ELSE {}

(***************************************************************************)
(* C20: with no category the result is 'no filter' for every agent id;     *)
(* for a registered agent, a name among its categories gives that          *)
(* category's backupIncludes (backup) and restoreIncludes (restore), and   *)
(* every other name ends in the unknown-category error, never in a         *)
(* pattern list or 'no filter'.  (An empty name is read as no category.)   *)
(***************************************************************************)
C20_CategoryResolution ==
  \A direction \in {"backup", "restore"} :
    LET result == IF direction = "backup" THEN cresult.backup ELSE cresult.restore
    IN result.kind # "pending" =>
         IF cargs.only \in {"<absent>", ""}
           THEN result.kind = "nofilter"
         ELSE IF cargs.agentId \notin {"claude-code", "codex"}
           THEN TRUE
         ELSE IF cargs.only \in OwnCategories(cargs.agentId)
           THEN /\ result.kind = "includes"
                /\ result.patterns =
                     IF direction = "backup"
                       THEN agents[cargs.agentId].categories[cargs.only].backupIncludes
                       ELSE agents[cargs.agentId].categories[cargs.only].restoreIncludes
         ELSE /\ result.kind = "exit"
              /\ result.error = "unknown-category"

(***************************************************************************)
(* C21: the excludes of every backup invocation are the definition's       *)
(* excludes, then the agent config's (none when unset), then the global    *)
(* ones: position by position, nothing dropped, merged or reordered.       *)
(***************************************************************************)
C21_ExcludesConcatenation ==
  \A c \in 1..Len(calls) :
    calls[c].op = "backup" =>
      LET agentConfig == agentsToBackup[calls[c].agentIdx]
          fromDef == agents[agentConfig.id].excludes
          fromAgent == IF agentConfig.excludes = "<absent>" THEN << >>
                       ELSE agentConfig.excludes
          fromGlobal == config.exclude
          d == Len(fromDef)
          a == Len(fromAgent)
      IN /\ Len(calls[c].excludes) = d + a + Len(fromGlobal)
         /\ \A i \in 1..Len(calls[c].excludes) :
              calls[c].excludes[i] =
                IF i <= d THEN fromDef[i]
                ELSE IF i <= d + a THEN fromAgent[i - d]
                ELSE fromGlobal[i - d - a]

C21_Witness ==
  /\ Len(calls) > 0
  /\ calls[1].op = "backup"
  /\ calls[1].excludes = << "*.log", "*.log", "tmp/**", "*.log", ".DS_Store" >>

(***************************************************************************)
(* The agent registry (core/agents/registry.ts): a Map keyed by id.        *)
(***************************************************************************)
\* the most registerAgent calls followed
MaxRegistrations == 3

\* what a definition's detectInstalled() does when called
ProbeOutcomes == {"true", "false", "throws"}

\* the definitions handed to registerAgent: two ids, each in two versions
\* (re-registration), with each behaviour of the installation probe
AgentDefinitions ==
  [ id : {"claude-code", "codex"}, displayName : {"v1", "v2"},
    detectInstalled : ProbeOutcomes ]

\* position of a key among the entries of a Map, 0 when it has none
MapIndexOf(m, key) ==
  IF \E i \in 1..Len(m) : m[i].key = key
    THEN CHOOSE i \in 1..Len(m) : m[i].key = key
    ELSE 0

MapSet_KeepFirst(m, key, value) ==
  IF MapIndexOf(m, key) # 0 THEN m
  ELSE Append(m, [key |-> key, value |-> value])

\* Map.prototype.set: an existing key keeps its position and takes the new
\* value, a new key is appended
MapSet(m, key, value) ==
  IF MapIndexOf(m, key) # 0
    THEN [m EXCEPT ![MapIndexOf(m, key)].value = value]
    ELSE Append(m, [key |-> key, value |-> value])

\* getAgent(id): agents.get(id)
registryGetAgent(m, id) ==
  IF MapIndexOf(m, id) = 0 THEN NoAgent ELSE m[MapIndexOf(m, id)].value

\* getAllAgents(): Array.from(agents.values())
getAllAgents(m) == [i \in 1..Len(m) |-> m[i].value]

\* getAgentIds(): Array.from(agents.keys())
getAgentIds(m) == [i \in 1..Len(m) |-> m[i].key]

\* Array.prototype.filter over definitions whose probes all return
RECURSIVE FilterInstalled(_)
FilterInstalled(list) ==
  IF list = << >> THEN << >>
  ELSE IF Head(list).detectInstalled = "true"
    THEN << Head(list) >> \o FilterInstalled(Tail(list))
    ELSE FilterInstalled(Tail(list))

\* getInstalledAgents(): getAllAgents().filter((a) => a.detectInstalled());
\* the callback is not guarded, so the first probe that throws ends the call
getInstalledAgents(m) ==
  LET all == getAllAgents(m)
  IN IF \E i \in 1..Len(all) : all[i].detectInstalled = "throws"
       THEN [kind |-> "threw",
             at |-> CHOOSE i \in 1..Len(all) :
                      /\ all[i].detectInstalled = "throws"
                      /\ \A j \in 1..(i - 1) : all[j].detectInstalled # "throws"]
       ELSE [kind |-> "returned", list |-> FilterInstalled(all)]

RegistryInit ==
  /\ agentsMap = << >>
  /\ registered = << >>
  /\ installedResult = [kind |-> "not-called"]

\* registerAgent(agent)
RegisterAgent ==
  /\ Len(registered) < MaxRegistrations
  /\ \E agent \in AgentDefinitions :
       /\ agentsMap' = MapSet(agentsMap, agent.id, agent)
       /\ registered' = Append(registered, agent)
  /\ installedResult' = [kind |-> "not-called"]
  /\ UNCHANGED << backupVars, passVars, findVars, notRegistry >>

\* a caller evaluates getInstalledAgents()
GetInstalledAgents ==
  /\ installedResult' = getInstalledAgents(agentsMap)
  /\ UNCHANGED << agentsMap, registered >>
  /\ UNCHANGED << backupVars, passVars, findVars, notRegistry >>

InitRegistry ==
  /\ BackupIdle /\ PassIdle /\ FindIdle /\ RestoreIdle /\ HealthIdle /\ ForgetIdle
  /\ CategoryIdle /\ RegistryInit /\ StatusIdle

NextRegistry == RegisterAgent \/ GetInstalledAgents

SpecRegistry == InitRegistry /\ [][NextRegistry]_vars

(***************************************************************************)
(* Vocabulary of the registry properties.                                  *)
(***************************************************************************)
\* the registerAgent calls made with a given id
RegistrationsOf(id) == { i \in 1..Len(registered) : registered[i].id = id }

RegisteredIds == { registered[i].id : i \in 1..Len(registered) }

FirstRegistration(id) ==
  CHOOSE i \in RegistrationsOf(id) : \A j \in RegistrationsOf(id) : i <= j

LastRegistration(id) ==
  CHOOSE i \in RegistrationsOf(id) : \A j \in RegistrationsOf(id) : i >= j

(***************************************************************************)
(* C22: getInstalledAgents never ends in an exception: it returns, in      *)
(* registration order, exactly the registered definitions whose probe      *)
(* answers true, a definition whose probe throws being left out.           *)
(***************************************************************************)
C22_FailingProbeExcluded ==
  installedResult.kind # "not-called" =>
    /\ installedResult.kind = "returned"
    /\ \A i \in 1..Len(installedResult.list) :
         installedResult.list[i].detectInstalled = "true"
    /\ { installedResult.list[i].id : i \in 1..Len(installedResult.list) } =
         { id \in RegisteredIds : registered[LastRegistration(id)].detectInstalled = "true" }

(***************************************************************************)
(* C23: getAgent(id) is the definition of the last registerAgent call with *)
(* that id, and undefined for an id never registered; getAllAgents has one *)
(* definition per distinct id, ordered by first registration, and          *)
(* getAgentIds lists their ids in the same order.                          *)
(***************************************************************************)
C23_LastRegistrationWins ==
  LET all == getAllAgents(agentsMap)
      ids == getAgentIds(agentsMap)
  IN /\ \A id \in {"claude-code", "codex", "ghost"} :
          registryGetAgent(agentsMap, id) =
            IF RegistrationsOf(id) = {} THEN [undefined |-> TRUE]
            ELSE registered[LastRegistration(id)]
     /\ Len(all) = Cardinality(RegisteredIds)
     /\ Len(ids) = Len(all)
     /\ \A k \in 1..Len(all) :
          /\ ids[k] = all[k].id
          /\ all[k].id \in RegisteredIds
          /\ all[k] = registered[LastRegistration(all[k].id)]
          /\ Cardinality({ id \in RegisteredIds :
                             FirstRegistration(id) < FirstRegistration(all[k].id) }) = k - 1

C23_Witness ==
  /\ Len(registered) = 3
  /\ registered[1].id = "codex"
  /\ registered[2].id = "claude-code"
  /\ registered[3].id = "codex"
  /\ registered[3] # registered[1]
  /\ getAgentIds(agentsMap) = << "codex", "claude-code" >>
  /\ registryGetAgent(agentsMap, "codex") = registered[3]

(***************************************************************************)
(* C24: a restoreCommand run with dryRun set writes nothing: it issues no  *)
(* engine restore, or only one that is told not to write.                  *)
(***************************************************************************)
C24_DryRunWritesNothing ==
  ropts.dryRun =>
    \A c \in 1..Len(rcalls) :
      rcalls[c].op = "restore" => "dryRun" \in rcalls[c].optionKeys

(***************************************************************************)
(* restoreCommand on a repository left by full and --only backups.         *)
(***************************************************************************)
\* the most backup runs behind such a repository
MaxBackups == 2

\* the --only option of each earlier backupCommand run, oldest first
BackupHistories ==
  UNION { [1..n -> {Absent, "sessions", "config"}] : n \in 0..MaxBackups }

\* the backup invocations of one run: the plan, up to the first agent that
\* does not have the requested category (getCategoryIncludes exits there)
RunSteps(plan, only) ==
  LET fits(j) == ~Truthy(only) \/ only \in CategoryKeys(getAgent(plan[j].agentConfig.id))
      reached == { k \in 1..Len(plan) : \A j \in 1..k : fits(j) }
  IN [k \in 1..Cardinality(reached) |-> [step |-> plan[k], only |-> only]]

RECURSIVE HistorySteps(_, _)
HistorySteps(plan, history) ==
  IF history = << >> THEN << >>
  ELSE RunSteps(plan, Head(history)) \o HistorySteps(plan, Tail(history))

\* the snapshots those runs left: one per backup invocation, tagged as
\* backupAgent tags them
RepoAfterBackups(cfg, history) ==
  LET done == HistorySteps(BackupPlan(FilterEnabled(cfg.agents)), history)
  IN [k \in 1..Len(done) |->
        [ id       |-> k,
          short_id |-> ShortIdOf(k),
          time     |-> [hi |-> 1762160, lo |-> 400000 + 60000 * k],
          tags     |-> BuildTags(done[k].step.agentConfig, [only |-> done[k].only]),
          paths    |-> << expandHome(done[k].step.dataDir.path) >> ]]

RestoreAfterBackupsInit ==
  /\ rpc = "start"
  /\ rconfig \in RestoreConfigs \cup {NoConfig}
  /\ \E history \in BackupHistories :
       repo = IF rconfig = NoConfig THEN << >> ELSE RepoAfterBackups(rconfig, history)
  /\ atForm = [kind |-> "none"]
  /\ ropts \in RestoreOptions(atForm, repo)
  /\ rnow = [hi |-> 1762246, lo |-> 800030]
  /\ rpassphrase = Absent
  /\ rsnapshots = << >>
  /\ rtargetTime = [hi |-> 0, lo |-> 0]
  /\ selectedSnapshot = NoSelection
  /\ targetDir = Absent
  /\ rcalls = << >>
  /\ rlogged = << >>
  /\ rexit = Running
  /\ rprompt = [targetExists |-> "unchecked", answer |-> "not-asked"]

InitRestoreAfterBackups ==
  /\ BackupIdle /\ PassIdle /\ FindIdle /\ RestoreAfterBackupsInit /\ HealthIdle
  /\ ForgetIdle /\ CategoryIdle /\ RegistryIdle /\ StatusIdle

SpecRestoreAfterBackups == InitRestoreAfterBackups /\ [][NextRestore]_vars

(***************************************************************************)
(* C25: the snapshot restoreCommand selects fits the requested category:   *)
(* without --only it carries no category tag (its tags are "agentstash"    *)
(* and the agent id), with --only C it carries no category tag or C.       *)
(***************************************************************************)
C25_SelectedSnapshotFitsCategory ==
  selectedSnapshot # NoSelection =>
    \/ Len(selectedSnapshot.tags) = 2
    \/ /\ ropts.only # "<absent>"
       /\ Len(selectedSnapshot.tags) = 3
       /\ selectedSnapshot.tags[3] = ropts.only

\* the agent config entry restoreCommand works on, written out
SelectedAgentConfig ==
  rconfig.agents[CHOOSE i \in 1..Len(rconfig.agents) :
                   /\ rconfig.agents[i].id = ropts.agent
                   /\ \A j \in 1..(i - 1) : rconfig.agents[j].id # ropts.agent]

(***************************************************************************)
(* C26: in a run without dryRun and without --target whose target          *)
(* directory exists, a restore invocation is issued only after the prompt  *)
(* was answered yes, and a run whose prompt was answered no issues none    *)
(* and ends; the target is --target, else the agent config's dataDir, else *)
(* the first directory of the definition, and a run that finds none of     *)
(* them exits with code 1 before any restore.                              *)
(***************************************************************************)
C26_OverwriteNeedsConfirmation ==
  /\ (/\ RestoreCallIds # {}
      /\ ~ropts.dryRun
      /\ ropts.target = "<absent>"
      /\ rprompt.targetExists = "yes") => rprompt.answer = "yes"
  /\ rprompt.answer = "no" => RestoreCallIds = {} /\ rpc = "cancelled"
  /\ rprompt.answer # "not-asked" =>
       ~ropts.dryRun /\ ropts.target = "<absent>" /\ rprompt.targetExists = "yes"
  /\ targetDir # "<absent>" =>
       targetDir =
         IF ropts.target # "<absent>" THEN ropts.target
         ELSE IF SelectedAgentConfig.dataDir = "~/work/agent-data"
           THEN "/home/user/work/agent-data"
         ELSE IF SelectedAgentConfig.id = "claude-code" THEN "/home/user/.claude"
         ELSE "/home/user/.codex"
  /\ \A c \in RestoreCallIds : rcalls[c].target = targetDir /\ targetDir # "<absent>"
  /\ RestoreLastLogged = "no-target" => rexit = 1 /\ RestoreCallIds = {}

C26_Witness ==
  /\ rpc = "done"
  /\ ~ropts.dryRun
  /\ ropts.target = "<absent>"
  /\ rprompt = [targetExists |-> "yes", answer |-> "yes"]
  /\ SelectedAgentConfig.dataDir = "~/work/agent-data"
  /\ RestoreCallIds # {}
  /\ rcalls[Len(rcalls)].target = "/home/user/work/agent-data"

(***************************************************************************)
(* C27: in a backupCommand run no engine invocation is issued while an     *)
(* earlier one is still in flight (only the latest can be unsettled), the  *)
(* backup invocations follow the agent list and, within an agent, its      *)
(* directory list, and the forget invocation comes after all of them.      *)
(***************************************************************************)
C27_OneInvocationInFlight ==
  /\ \A k \in 1..Len(calls) : calls[k].outcome = "inflight" => k = Len(calls)
  /\ \A k, l \in 1..Len(calls) :
       (k < l /\ calls[l].op = "backup") =>
         /\ calls[k].op = "backup"
         /\ \/ calls[k].agentIdx < calls[l].agentIdx
            \/ /\ calls[k].agentIdx = calls[l].agentIdx
               /\ calls[k].dirIdx < calls[l].dirIdx

C27_Witness ==
  /\ Len(calls) = 4
  /\ calls[1].agentIdx = 1 /\ calls[1].dirIdx = 1 /\ calls[1].outcome = "failed"
  /\ calls[2].agentIdx = 1 /\ calls[2].dirIdx = 2 /\ calls[2].outcome = "ok"
  /\ calls[3].agentIdx = 2 /\ calls[3].op = "backup"
  /\ calls[4].op = "forget"
  /\ calls[4].outcome = "inflight"

\* the directories of a registered agent as its definition lists them
DefinitionPaths(id) ==
  IF id = "claude-code" THEN << "/home/user/.claude", "/home/user/.claude.json" >>
  ELSE << "/home/user/.codex" >>

\* the directory list a run has to go through for agent i, written out
ExpectedPaths(i) ==
  IF agentsToBackup[i].dataDir = "~/work/agent-data"
    THEN << "/home/user/work/agent-data" >>
    ELSE DefinitionPaths(agentsToBackup[i].id)

\* the existence checks and backup invocations of agent i are those of its
\* expected directory list, position by position
UsesExpectedPaths ==
  /\ \A c \in pathChecks :
       /\ c.dirIdx \in 1..Len(ExpectedPaths(c.agentIdx))
       /\ c.path = ExpectedPaths(c.agentIdx)[c.dirIdx]
  /\ \A k \in BackupCallIds :
       /\ calls[k].dirIdx \in 1..Len(ExpectedPaths(calls[k].agentIdx))
       /\ calls[k].path = ExpectedPaths(calls[k].agentIdx)[calls[k].dirIdx]
  /\ \A i \in Selected :
       (InRegistry(i) /\ AgentPassed(i)) =>
         \A j \in 1..Len(ExpectedPaths(i)) : \E c \in pathChecks : c.agentIdx = i /\ c.dirIdx = j

\* the entry the directory loop is at
AtDirectory == pc \in {"dir", "await_backup"}

StatusInit ==
  /\ spc = "start"
  /\ sconfig \in HealthConfigs
  /\ spassphrase = Absent
  /\ scalls = << >>
  /\ sexit = Running

\* const config = await loadConfig(); if (!config) process.exit(1); the
\* per-agent lines are printed
StatusLoadConfig ==
  /\ spc = "start"
  /\ IF sconfig = NoConfig
       THEN spc' = "exited" /\ sexit' = 1
       ELSE spc' = "passphrase" /\ UNCHANGED sexit
  /\ UNCHANGED << sconfig, spassphrase, scalls >>
  /\ UNCHANGED << backupVars, passVars, findVars, notStatus >>

\* the passphrase chain; if (!passphrase) { "Skipped (no passphrase)"; return }
StatusPassphrase ==
  /\ spc = "passphrase"
  /\ \E explicit \in PassphraseOptions, e \in EnvValues, k \in KeychainValues :
       LET p == statusPassphrase(explicit, e, k) IN
       /\ spassphrase' = p
       /\ IF Truthy(p)
            THEN spc' = "remote" /\ UNCHANGED sexit
            ELSE spc' = "skipped" /\ sexit' = 0
  /\ UNCHANGED << sconfig, scalls >>
  /\ UNCHANGED << backupVars, passVars, findVars, notStatus >>

\* Promise.all([listSnapshots(...), stats(...)]): the array is built first,
\* so both engine invocations are started before anything is awaited
StatusStartRemote ==
  /\ spc = "remote"
  /\ scalls' = << [op |-> "listSnapshots", passphrase |-> spassphrase, outcome |-> "inflight"],
                  [op |-> "stats", passphrase |-> spassphrase, outcome |-> "inflight"] >>
  /\ spc' = "await_all"
  /\ UNCHANGED << sconfig, spassphrase, sexit >>
  /\ UNCHANGED << backupVars, passVars, findVars, notStatus >>

\* one of the two invocations resolves; Promise.all resolves with the second
StatusCallResolves ==
  /\ \E k \in 1..Len(scalls) :
       /\ scalls[k].outcome = "inflight"
       /\ scalls' = [scalls EXCEPT ![k].outcome = "ok"]
       /\ IF spc = "await_all" /\ \A j \in 1..Len(scalls) : j # k => scalls[j].outcome = "ok"
            THEN spc' = "done" /\ sexit' = 0
            ELSE UNCHANGED << spc, sexit >>
  /\ UNCHANGED << sconfig, spassphrase >>
  /\ UNCHANGED << backupVars, passVars, findVars, notStatus >>

\* one of the two invocations rejects; Promise.all rejects with the first
\* rejection: catch (err) { spinner.fail; log.error } and the command returns
StatusCallRejects ==
  /\ \E k \in 1..Len(scalls) :
       /\ scalls[k].outcome = "inflight"
       /\ scalls' = [scalls EXCEPT ![k].outcome = "failed"]
       /\ IF spc = "await_all"
            THEN spc' = "done" /\ sexit' = 0
            ELSE UNCHANGED << spc, sexit >>
  /\ UNCHANGED << sconfig, spassphrase >>
  /\ UNCHANGED << backupVars, passVars, findVars, notStatus >>

InitStatus ==
  /\ BackupIdle /\ PassIdle /\ FindIdle /\ RestoreIdle /\ HealthIdle /\ ForgetIdle
  /\ CategoryIdle /\ RegistryIdle /\ StatusInit

NextStatus ==
  \/ StatusLoadConfig
  \/ StatusPassphrase
  \/ StatusStartRemote
  \/ StatusCallResolves
  \/ StatusCallRejects

SpecStatus == InitStatus /\ [][NextStatus]_vars

\* the engine invocations of a call log that have not settled
InFlight(log) == { k \in 1..Len(log) : log[k].outcome = "inflight" }

(***************************************************************************)
(* C29: no command has two engine invocations in flight at once; for       *)
(* statusCommand, listSnapshots and stats are never both unsettled.        *)
(***************************************************************************)
C29_NoOverlappingInvocations ==
  /\ Cardinality(InFlight(scalls)) <= 1
  /\ Cardinality(InFlight(calls)) <= 1
  /\ Cardinality(InFlight(rcalls)) <= 1

\* backupCommand is past the choice of agentsToBackup (an exit for a missing
\* passphrase comes before it and leaves passphrase absent)
SelectionMade ==
  \/ pc \in {"agent", "dir", "await_backup", "retention", "await_forget", "done"}
  \/ pc = "exited" /\ passphrase # Absent

\* positions of config.agents the command line asks for: every enabled entry,
\* or the first entry that carries the id given with --agent
AskedFor ==
  IF opts.agent = Absent
    THEN { i \in 1..Len(config.agents) : config.agents[i].enabled }
    ELSE { i \in 1..Len(config.agents) :
             /\ config.agents[i].id = opts.agent
             /\ \A k \in 1..(i - 1) : config.agents[k].id # opts.agent }

\* place of position i among the positions asked for, in config order
PlaceOf(i) == Cardinality({ j \in AskedFor : j <= i })

(***************************************************************************)
(* C30: without --agent, backupCommand selects exactly the enabled config  *)
(* entries, in config order; with --agent X it selects exactly the first   *)
(* entry with id X, enabled or not; every backup invocation belongs to a   *)
(* selected entry; if X is not configured or nothing is selected, the      *)
(* command exits with status 1 without any backup or forget invocation.    *)
(***************************************************************************)
C30_AgentSelection ==
  SelectionMade =>
    IF AskedFor = {}
      THEN /\ pc = "exited"
           /\ exitCode = 1
           /\ agentsToBackup = << >>
           /\ calls = << >>
      ELSE /\ Len(agentsToBackup) = Cardinality(AskedFor)
           /\ \A i \in AskedFor : agentsToBackup[PlaceOf(i)] = config.agents[i]
           /\ \A k \in BackupCallIds :
                /\ calls[k].agentIdx \in Selected
                /\ calls[k].tags[2] = agentsToBackup[calls[k].agentIdx].id

\* --agent names an id that two entries carry, the first of them disabled and
\* unlike the second, and that first entry has been backed up
C30_Witness ==
  /\ pc = "done"
  /\ opts.agent # Absent
  /\ Len(config.agents) = 2
  /\ config.agents[1].id = opts.agent
  /\ config.agents[2].id = opts.agent
  /\ ~config.agents[1].enabled
  /\ config.agents[1] # config.agents[2]
  /\ agentsToBackup = << config.agents[1] >>
  /\ BackupCallIds # {}

=============================================================================
